---------------------------- MODULE Spec2Model ----------------------------
(***************************************************************************)
(* A model of the discourse-intelligence-engine: the sentence segmenter,   *)
(* the three pattern analyzers (logical fallacy, hidden assumption,        *)
(* hidden agenda), the satire model, the small lexical analyzers,          *)
(* run_pipeline, and the v3 analyzers (narrative arc, contradiction,       *)
(* debate heatmap, temporal drift).                                        *)
(*                                                                         *)
(* A text is a sequence of symbols.  A symbol is one whitespace character, *)
(* one sentence terminator, or one whole word (a maximal run of word       *)
(* characters, with its length in characters given by Width).  Offsets are *)
(* character offsets as in Python.  Words are lower case, except the       *)
(* capitalised symbols of Capitalized, which LowerSymbol lowers.           *)
(***************************************************************************)
EXTENDS Integers, Sequences, FiniteSets, TLC

VARIABLES text, res, prev, hashSeed, lex, turns, documents

vars == <<text, res, prev, hashSeed, lex, turns, documents>>

-----------------------------------------------------------------------------
(***************************************************************************)
(* Characters and words.                                                   *)
(***************************************************************************)
Spaces == {" ", "\n"}

Terminators == {".", "!", "?"}

IsSpace(c) == c \in Spaces

IsTerm(c) == c \in Terminators

\* A transcript marker is one symbol; its brackets are not word characters.
Markers == {"[applause]", "[pause]"}

IsMarker(c) == c \in Markers

\* A word symbol: every character of it is a word character (\w), except the
\* apostrophe inside a contraction.
IsWord(c) == ~IsSpace(c) /\ ~IsTerm(c) /\ ~IsMarker(c)

\* BEGIN VOCABULARY
Words1 ==
    {"a", "i"}

Words2 ==
    {"ok", "or", "no", "so", "we", "us", "to", "it", "is", "he", "do", "of",
     "by", "if"}

Words3 ==
    {"not", "one", "yes", "you", "all", "win", "why", "the", "did", "was",
     "now", "and"}

Words4 ==
    {"true", "they", "want", "knew", "left", "thus", "lose", "them", "cats",
     "stop", "fear", "must", "know", "show", "what", "only", "real", "liar",
     "iran", "will", "into", "turn", "best", "plan", "that", "this", "data"}

Words5 ==
    {"false", "never", "maybe", "again", "still", "enemy", "might", "could",
     "hence", "rumor", "about", "knows", "ruled", "chaos", "small", "allow",
     "facts", "sense", "raise", "taxes", "data,"}

Words6 ==
    {"either", "threat", "crisis", "nobody", "course", "always", "change",
     "policy", "troops", "attack", "satire", "common", "facts,", "forces",
     "regime"}

Words7 ==
    {"doesn't", "destroy", "experts", "managed", "stopped", "clearly",
     "perhaps", "studies", "perfect", "because", "ignores", "society",
     "protect", "change,"}

Words8 ==
    {"collapse", "realized", "everyone", "military", "universe", "rejected"}

Words9 ==
    {"obviously", "therefore", "meanwhile"}

Words10 ==
    {"completely"}

Words11 ==
    {"threatening"}

Words12 ==
    {"consequently"}

Vocabulary ==
    Words1 \cup Words2 \cup Words3 \cup Words4 \cup Words5 \cup Words6
        \cup Words7 \cup Words8 \cup Words9 \cup Words10 \cup Words11 \cup Words12

\* The symbols with a capital letter: words at the start of a question
Capitalized == {"Do", "Did"}

\* str.lower(), for one symbol
LowerSymbol(c) == IF c = "Do" THEN "do" ELSE IF c = "Did" THEN "did" ELSE c

\* len(): the number of characters of a symbol.
Width(c) ==
    CASE c = "[applause]" -> 10
      [] c = "[pause]" -> 7
      [] c = "Do" -> 2
      [] c = "Did" -> 3
      [] c \in Words2 -> 2
      [] c \in Words3 -> 3
      [] c \in Words4 -> 4
      [] c \in Words5 -> 5
      [] c \in Words6 -> 6
      [] c \in Words7 -> 7
      [] c \in Words8 -> 8
      [] c \in Words9 -> 9
      [] c \in Words10 -> 10
      [] c \in Words11 -> 11
      [] c \in Words12 -> 12
      [] OTHER -> 1

\* The pairs <<word, term>> with term a proper substring of word.
ProperSubstrings ==
    {<<"about", "a">>, <<"again", "a">>, <<"again", "i">>, <<"all", "a">>,
     <<"allow", "a">>, <<"allow", "all">>, <<"always", "a">>, <<"and", "a">>,
     <<"attack", "a">>, <<"because", "a">>, <<"because", "us">>,
     <<"cats", "a">>, <<"change", "a">>, <<"change,", "a">>,
     <<"change,", "change">>, <<"chaos", "a">>, <<"clearly", "a">>,
     <<"collapse", "a">>, <<"crisis", "i">>, <<"crisis", "is">>,
     <<"data", "a">>, <<"data,", "a">>, <<"data,", "data">>, <<"did", "i">>,
     <<"doesn't", "do">>, <<"either", "he">>, <<"either", "i">>,
     <<"either", "it">>, <<"either", "the">>, <<"everyone", "one">>,
     <<"facts", "a">>, <<"facts,", "a">>, <<"facts,", "facts">>,
     <<"false", "a">>, <<"fear", "a">>, <<"forces", "or">>,
     <<"hence", "he">>, <<"if", "i">>, <<"ignores", "i">>,
     <<"ignores", "no">>, <<"ignores", "or">>, <<"into", "i">>,
     <<"into", "to">>, <<"iran", "a">>, <<"iran", "i">>, <<"is", "i">>,
     <<"it", "i">>, <<"know", "no">>, <<"know", "now">>, <<"knows", "know">>,
     <<"knows", "no">>, <<"knows", "now">>, <<"liar", "a">>, <<"liar", "i">>,
     <<"managed", "a">>, <<"maybe", "a">>, <<"meanwhile", "a">>,
     <<"meanwhile", "i">>, <<"might", "i">>, <<"military", "a">>,
     <<"military", "i">>, <<"military", "it">>, <<"must", "us">>,
     <<"nobody", "no">>, <<"not", "no">>, <<"now", "no">>,
     <<"obviously", "i">>, <<"obviously", "us">>, <<"perhaps", "a">>,
     <<"plan", "a">>, <<"policy", "i">>, <<"raise", "a">>, <<"raise", "i">>,
     <<"raise", "is">>, <<"real", "a">>, <<"realized", "a">>,
     <<"realized", "i">>, <<"realized", "real">>, <<"regime", "i">>,
     <<"rejected", "reject">>, <<"rumor", "or">>, <<"satire", "a">>,
     <<"satire", "i">>, <<"small", "a">>, <<"small", "all">>,
     <<"society", "i">>, <<"society", "so">>, <<"still", "i">>,
     <<"stop", "to">>, <<"stopped", "stop">>, <<"stopped", "to">>,
     <<"studies", "i">>, <<"taxes", "a">>, <<"that", "a">>, <<"the", "he">>,
     <<"them", "he">>, <<"them", "the">>, <<"therefore", "he">>,
     <<"therefore", "or">>, <<"therefore", "the">>, <<"they", "he">>,
     <<"they", "the">>, <<"this", "i">>, <<"this", "is">>, <<"threat", "a">>,
     <<"threatening", "a">>, <<"threatening", "i">>,
     <<"threatening", "threat">>, <<"thus", "us">>, <<"universe", "i">>,
     <<"want", "a">>, <<"was", "a">>, <<"what", "a">>, <<"will", "i">>,
     <<"win", "i">>}

\* The pairs <<word, part>> with part a proper suffix of word.
ProperSuffixes ==
    {<<"was", "as">>}

\* The pairs <<word, part>> with part a proper prefix of word.
ProperPrefixes ==
    {<<"forces", "for">>, <<"knows", "know">>}
\* END VOCABULARY

RECURSIVE CharLen(_)
\* len(s) for a string given as a sequence of symbols.
CharLen(s) ==
    IF s = <<>> THEN 0
    ELSE IF Len(s) = 1 THEN Width(s[1])
    ELSE CharLen(SubSeq(s, 1, Len(s) \div 2))
         + CharLen(SubSeq(s, Len(s) \div 2 + 1, Len(s)))

\* The character offset at which symbol i of s starts (0-based, as Python).
Offset(s, i) == CharLen(SubSeq(s, 1, i - 1))

RECURSIVE LStrip(_)
LStrip(s) == IF s # <<>> /\ IsSpace(Head(s)) THEN LStrip(Tail(s)) ELSE s

RECURSIVE RStrip(_)
RStrip(s) ==
    IF s # <<>> /\ IsSpace(s[Len(s)]) THEN RStrip(SubSeq(s, 1, Len(s) - 1)) ELSE s

\* str.strip()
Strip(s) == RStrip(LStrip(s))

\* "not text or not text.strip()"
IsBlank(s) == Strip(s) = <<>>

-----------------------------------------------------------------------------
(***************************************************************************)
(* utils/text_utils.py: the sentence segmenter.                            *)
(***************************************************************************)

\* The first terminator at or after symbol p, or 0.
NextTerm(s, p) ==
    IF \E t \in p..Len(s) : IsTerm(s[t])
    THEN CHOOSE t \in p..Len(s) :
            IsTerm(s[t]) /\ \A u \in p..(t - 1) : ~IsTerm(s[u])
    ELSE 0

\* The first symbol after t that is not whitespace, or Len(s) + 1.
SkipSpaces(s, t) ==
    IF \E e \in (t + 1)..Len(s) : ~IsSpace(s[e])
    THEN CHOOSE e \in (t + 1)..Len(s) :
            ~IsSpace(s[e]) /\ \A u \in (t + 1)..(e - 1) : IsSpace(s[u])
    ELSE Len(s) + 1

\* One iteration of "for m in pattern.finditer(text)": the append or the merge.
AddFragment(result, s, start, end) ==
    IF CharLen(s) > 2
    THEN Append(result, [sent |-> s, start |-> start, end |-> end])
    ELSE IF s # <<>> /\ result # <<>>
         THEN [result EXCEPT ![Len(result)] =
                 [sent |-> Strip(@.sent \o <<" ">> \o s), start |-> @.start,
                  end |-> end]]
         ELSE result

RECURSIVE ScanSentences(_, _, _)
\* finditer of ([^.!?]*[.!?])(?!\w)(?:\s+|$) from symbol p on.  A terminator
\* that is followed by anything but whitespace or the end fails every match
\* that would end at it, and the scan resumes right after it.
ScanSentences(s, p, result) ==
    LET t == NextTerm(s, p) IN
    IF p > Len(s) \/ t = 0 THEN result
    ELSE IF t < Len(s) /\ ~IsSpace(s[t + 1]) THEN ScanSentences(s, t + 1, result)
    ELSE ScanSentences(s, SkipSpaces(s, t),
            AddFragment(result, Strip(SubSeq(s, p, t)), Offset(s, p),
                        Offset(s, t + 1)))

split_sentences_with_offsets(s) ==
    IF IsBlank(s) THEN <<>>
    ELSE LET result == ScanSentences(s, 1, <<>>) IN
         IF result = <<>>
         THEN <<[sent |-> Strip(s), start |-> 0, end |-> CharLen(s)]>>
         ELSE result

RECURSIVE SentencesOf(_)
\* [s for s, _, _ in triples]
SentencesOf(triples) ==
    IF triples = <<>> THEN <<>>
    ELSE <<Head(triples).sent>> \o SentencesOf(Tail(triples))

split_sentences(s) ==
    IF IsBlank(s) THEN <<>> ELSE SentencesOf(split_sentences_with_offsets(s))

sentence_containing_offset(sents, pos) ==
    IF \E i \in 1..Len(sents) : sents[i].start <= pos /\ pos < sents[i].end
    THEN LET i == CHOOSE i \in 1..Len(sents) :
                    /\ sents[i].start <= pos /\ pos < sents[i].end
                    /\ \A j \in 1..(i - 1) :
                          ~(sents[j].start <= pos /\ pos < sents[j].end)
         IN sents[i].sent
    ELSE IF sents # <<>> THEN sents[1].sent ELSE <<>>

\* str.split(): the maximal runs of symbols that are not whitespace.
RECURSIVE SplitWords(_)
SplitWords(s) ==
    LET t == LStrip(s) IN
    IF t = <<>> THEN <<>>
    ELSE LET n == IF \E k \in 1..Len(t) : IsSpace(t[k])
                  THEN (CHOOSE k \in 1..Len(t) :
                           IsSpace(t[k]) /\ \A u \in 1..(k - 1) : ~IsSpace(t[u])) - 1
                  ELSE Len(t)
         IN <<SubSeq(t, 1, n)>> \o SplitWords(SubSeq(t, n + 1, Len(t)))

count_words(s) == IF IsBlank(s) THEN 0 ELSE Len(SplitWords(s))

count_sentences(s) == Len(split_sentences(s))

-----------------------------------------------------------------------------
(***************************************************************************)
(* String and regular-expression matching on symbol sequences.             *)
(***************************************************************************)

\* The runs of word characters inside one symbol, as \b[a-z]+\b and \b\w+\b
\* find them.
LetterRuns(c) ==
    IF IsMarker(c) THEN {IF c = "[applause]" THEN "applause" ELSE "pause"}
    ELSE IF ~IsWord(c) THEN {}
    ELSE IF c = "doesn't" THEN {"doesn", "t"}
    ELSE IF c = "change," THEN {"change"}
    ELSE IF c = "facts," THEN {"facts"}
    ELSE IF c = "data," THEN {"data"}
    ELSE {c}

\* A word that is one run of word characters.
IsPlainWord(c) == IsWord(c) /\ LetterRuns(c) = {c}

\* term in word (both lower case), for one word symbol.
Contains(w, term) == w = term \/ <<w, term>> \in ProperSubstrings

EndsWith(w, part) == w = part \/ <<w, part>> \in ProperSuffixes

StartsWith(w, part) == w = part \/ <<w, part>> \in ProperPrefixes

\* "phrase in lower" for a phrase of words joined by single spaces: the
\* first word may end a longer word and the last may start one.
PhraseAt(s, i, ph) ==
    LET n == Len(ph) IN
    /\ i + 2 * (n - 1) <= Len(s)
    /\ \A k \in 1..n :
          LET c == s[i + 2 * (k - 1)] IN
          /\ IsWord(c)
          /\ IF n = 1 THEN Contains(c, ph[1])
             ELSE IF k = 1 THEN EndsWith(c, ph[1])
             ELSE IF k = n THEN StartsWith(c, ph[n])
             ELSE c = ph[k]
    /\ \A k \in 1..(n - 1) : s[i + 2 * k - 1] = " "

PhraseIn(s, ph) == \E i \in 1..Len(s) : PhraseAt(s, i, ph)

\* Elements of a regular expression without alternation: a whole word out
\* of a set (\bw\b), \s+, one space, \w+, a word of a set with no \b after
\* it (it may start a longer word) or with no \b before it (it may end one).
Lit(ws) == [k |-> "lit", ws |-> ws]

Sp == [k |-> "sp", ws |-> {}]

Sp1 == [k |-> "sp1", ws |-> {}]

AnyWord == [k |-> "w", ws |-> {}]

Pre(ws) == [k |-> "pre", ws |-> ws]

Suf(ws) == [k |-> "suf", ws |-> ws]

RECURSIVE MatchEnd(_, _, _)
\* The index after the match of pat that starts at symbol i, or 0 when pat
\* does not match there.  \s+ is greedy.  A word in the middle of a pattern
\* is matched whole, for a space or a terminator has to follow it.
MatchEnd(s, i, pat) ==
    IF pat = <<>> THEN i
    ELSE IF i > Len(s) THEN 0
    ELSE LET e == Head(pat)
             last == Tail(pat) = <<>>
         IN
         CASE e.k = "sp" ->
                IF ~IsSpace(s[i]) THEN 0
                ELSE LET more == MatchEnd(s, i + 1, pat) IN
                     IF more # 0 THEN more ELSE MatchEnd(s, i + 1, Tail(pat))
           [] e.k = "sp1" ->
                IF s[i] = " " THEN MatchEnd(s, i + 1, Tail(pat)) ELSE 0
           [] e.k = "w" ->
                IF IsPlainWord(s[i]) \/ (last /\ IsWord(s[i]))
                THEN MatchEnd(s, i + 1, Tail(pat)) ELSE 0
           [] e.k = "pre" ->
                IF \/ s[i] \in e.ws
                   \/ last /\ IsWord(s[i]) /\ \E w \in e.ws : StartsWith(s[i], w)
                THEN MatchEnd(s, i + 1, Tail(pat)) ELSE 0
           [] e.k = "suf" ->
                IF IsWord(s[i]) /\ \E w \in e.ws : EndsWith(s[i], w)
                THEN MatchEnd(s, i + 1, Tail(pat)) ELSE 0
           [] OTHER ->
                IF s[i] \in e.ws THEN MatchEnd(s, i + 1, Tail(pat)) ELSE 0

\* re.search for a regular expression given as its alternatives in order of
\* preference: [at |-> the symbol the leftmost match starts at (0: no match),
\* to |-> the index after it].
Search(s, alts) ==
    LET hits == {i \in 1..Len(s) :
                    \E a \in 1..Len(alts) : MatchEnd(s, i, alts[a]) # 0} IN
    IF hits = {} THEN [at |-> 0, to |-> 0]
    ELSE LET i == CHOOSE i \in hits : \A j \in hits : i <= j
             a == CHOOSE a \in 1..Len(alts) :
                     /\ MatchEnd(s, i, alts[a]) # 0
                     /\ \A b \in 1..(a - 1) : MatchEnd(s, i, alts[b]) = 0
         IN [at |-> i, to |-> MatchEnd(s, i, alts[a])]

\* re.search over a tuple of compiled patterns, "for pat in PATTERNS: if
\* pat.search(text): ... break": the match of the first pattern that matches.
RECURSIVE FirstSearch(_, _)
FirstSearch(s, pats) ==
    IF pats = <<>> THEN [at |-> 0, to |-> 0]
    ELSE LET m == Search(s, Head(pats)) IN
         IF m.at # 0 THEN m ELSE FirstSearch(s, Tail(pats))

Reverse(q) == [i \in 1..Len(q) |-> q[Len(q) + 1 - i]]

\* The order in which this process iterates a set of strings: it depends on
\* the process's string hash seed.  The set is given in one order; under a
\* seed that names the set it is iterated in the opposite order.
IterOrder(name, q) == IF name \in hashSeed THEN Reverse(q) ELSE q

RECURSIVE FirstIndexWhere(_, _)
\* The index of the first TRUE of a sequence of booleans, or 0.
FirstIndexWhere(bs, i) ==
    IF i > Len(bs) THEN 0 ELSE IF bs[i] THEN i ELSE FirstIndexWhere(bs, i + 1)

-----------------------------------------------------------------------------
(***************************************************************************)
(* analyzers/logical_fallacy.py                                            *)
(***************************************************************************)
Punctuation == {".", ",", ";", ":", "!", "?"}

RECURSIVE RStripPunct(_)
\* str.rstrip(".,;:!?")
RStripPunct(s) ==
    IF s # <<>> /\ s[Len(s)] \in Punctuation
    THEN RStripPunct(SubSeq(s, 1, Len(s) - 1)) ELSE s

\* FALSE_DILEMMA_PATTERN.search(text), \beither\b.*\bor\b with DOTALL: the
\* symbol of the first "either" that has an "or" anywhere after it, or 0.
FalseDilemmaMatch(s) ==
    LET hits == {i \in 1..Len(s) :
                    s[i] = "either" /\ \E j \in (i + 1)..Len(s) : s[j] = "or"} IN
    IF hits = {} THEN 0 ELSE CHOOSE i \in hits : \A j \in hits : i <= j

\* EITHER_OR_CAPTURE.search(text), \beither\b(.+?)\bor\b(.+)$ with DOTALL:
\* group 1 is lazy, so it ends at the first "or" after "either" that leaves
\* something for group 2, and group 2 runs to the end of the text.
EitherOrCapture(s) ==
    LET hits == {i \in 1..Len(s) :
                    /\ s[i] = "either"
                    /\ \E j \in (i + 2)..(Len(s) - 1) : s[j] = "or"} IN
    IF hits = {} THEN [found |-> FALSE, first |-> <<>>, second |-> <<>>]
    ELSE LET i == CHOOSE i \in hits : \A j \in hits : i <= j
             ors == {j \in (i + 2)..(Len(s) - 1) : s[j] = "or"}
             j == CHOOSE j \in ors : \A k \in ors : j <= k
         IN [found |-> TRUE, first |-> SubSeq(s, i + 1, j - 1),
             second |-> SubSeq(s, j + 1, Len(s))]

ContractionNegations ==
    {"doesn't", "don't", "isn't", "aren't", "wasn't", "weren't", "won't",
     "can't", "couldn't", "shouldn't", "wouldn't", "hasn't", "haven't",
     "hadn't", "mustn't"}

\* any(pat.search(second) for pat in GENUINE_DICHOTOMY_PATTERNS)
HasNegationMarker(second) ==
    \E k \in 1..Len(second) :
        \/ second[k] \in ContractionNegations
        \/ second[k] = "not"
        \/ /\ second[k] = "no"
           /\ MatchEnd(second, k + 1, <<Sp, Lit({"one", "longer"})>>) = 0
        \/ second[k] = "never"

COMPLEMENTARY_PAIRS ==
    {<<"true", "false">>, <<"false", "true">>, <<"yes", "no">>, <<"no", "yes">>}

_is_genuine_dichotomy(s) ==
    LET m == EitherOrCapture(s)
        first == RStripPunct(Strip(m.first))
        second == RStripPunct(Strip(m.second))
        fw == SplitWords(first)
        sw == SplitWords(second)
        first_word == IF fw = <<>> THEN <<>> ELSE fw[Len(fw)]
        second_word == IF sw = <<>> THEN <<>> ELSE sw[1]
    IN  /\ m.found
        /\ \/ HasNegationMarker(second)
           \/ \E p \in COMPLEMENTARY_PAIRS :
                 first_word = <<p[1]>> /\ second_word = <<p[2]>>

\* FEAR_TERMS, a set: its iteration order is the process's.
FEAR_TERMS ==
    IterOrder("FEAR_TERMS",
              <<"collapse", "destroy", "threat", "danger", "catastrophe", "crisis">>)

\* "t in lower"
TermInText(s, term) == \E i \in 1..Len(s) : IsWord(s[i]) /\ Contains(s[i], term)

\* re.search(rf"\b{t}\b", text): the symbol of the first whole word t, or 0.
WholeWordSearch(s, term) ==
    LET hits == {i \in 1..Len(s) : s[i] = term} IN
    IF hits = {} THEN 0 ELSE CHOOSE i \in hits : \A j \in hits : i <= j

ATTACK_PATTERNS ==
    <<  <<  <<Lit({"they"}), Sp, Lit({"want"}), Sp, Lit({"to"}), Sp, AnyWord>>  >>  >>

\* The appeal-to-fear confidence written as a percentage
AppealToFearPercent == 65 * 100

FalseDilemmaConfidence == 80

AppealToFearConfidence == 65

AdHominemConfidence == 75

FallacyFlag(name, pattern_hint, sentence, confidence) ==
    [name |-> name, pattern_hint |-> pattern_hint, sentence |-> sentence,
     confidence |-> confidence]

\* The first fear term, in iteration order, that is a substring of the text
\* ("" when none is): "next(... for t in FEAR_TERMS if t in lower)".
FirstFearTerm(s) ==
    LET k == FirstIndexWhere([i \in 1..Len(FEAR_TERMS) |->
                                 TermInText(s, FEAR_TERMS[i])], 1) IN
    IF k = 0 THEN "" ELSE FEAR_TERMS[k]

\* LogicalFallacyAnalyzer.analyze
LogicalFallacyAnalyze(s) ==
    LET sents == split_sentences_with_offsets(s)
        _sentence_at(i) == sentence_containing_offset(sents, Offset(s, i))
        fd == FalseDilemmaMatch(s)
        dilemma ==
            IF fd # 0 /\ ~_is_genuine_dichotomy(s)
            THEN <<FallacyFlag("False Dilemma", "pattern: either X or Y",
                               _sentence_at(fd), FalseDilemmaConfidence)>>
            ELSE <<>>
        ft == FirstFearTerm(s)
        fear_match == IF ft = "" THEN 0 ELSE WholeWordSearch(s, ft)
        fear ==
            IF ft # ""
            THEN <<FallacyFlag("Appeal to Fear", "threat language",
                      IF fear_match # 0 THEN _sentence_at(fear_match)
                      ELSE IF sents # <<>> THEN sents[1].sent ELSE <<>>,
                      AppealToFearConfidence)>>
            ELSE <<>>
        am == FirstSearch(s, ATTACK_PATTERNS)
        attack ==
            IF am.at # 0
            THEN <<FallacyFlag("Ad Hominem / Attack", "they want to [verb] pattern",
                               _sentence_at(am.at), AdHominemConfidence)>>
            ELSE <<>>
    IN dilemma \o fear \o attack

-----------------------------------------------------------------------------
(***************************************************************************)
(* analyzers/hidden_assumptions.py                                         *)
(***************************************************************************)

\* FACTIVE_VERBS, each verb w with the strings w + "s" and w + "ed" that
\* _check_presupposition_triggers looks for.
FactiveForms ==
    <<[w |-> "acknowledge", s |-> "acknowledges", ed |-> "acknowledgeed"],
      [w |-> "acknowledged", s |-> "acknowledgeds", ed |-> "acknowledgeded"],
      [w |-> "acknowledges", s |-> "acknowledgess", ed |-> "acknowledgesed"],
      [w |-> "admit", s |-> "admits", ed |-> "admited"],
      [w |-> "admits", s |-> "admitss", ed |-> "admitsed"],
      [w |-> "admitted", s |-> "admitteds", ed |-> "admitteded"],
      [w |-> "discover", s |-> "discovers", ed |-> "discovered"],
      [w |-> "discovered", s |-> "discovereds", ed |-> "discovereded"],
      [w |-> "discovers", s |-> "discoverss", ed |-> "discoversed"],
      [w |-> "knew", s |-> "knews", ed |-> "knewed"],
      [w |-> "know", s |-> "knows", ed |-> "knowed"],
      [w |-> "knows", s |-> "knowss", ed |-> "knowsed"],
      [w |-> "notice", s |-> "notices", ed |-> "noticeed"],
      [w |-> "noticed", s |-> "noticeds", ed |-> "noticeded"],
      [w |-> "notices", s |-> "noticess", ed |-> "noticesed"],
      [w |-> "realize", s |-> "realizes", ed |-> "realizeed"],
      [w |-> "realized", s |-> "realizeds", ed |-> "realizeded"],
      [w |-> "realizes", s |-> "realizess", ed |-> "realizesed"],
      [w |-> "recognize", s |-> "recognizes", ed |-> "recognizeed"],
      [w |-> "recognized", s |-> "recognizeds", ed |-> "recognizeded"],
      [w |-> "recognizes", s |-> "recognizess", ed |-> "recognizesed"],
      [w |-> "regret", s |-> "regrets", ed |-> "regreted"],
      [w |-> "regrets", s |-> "regretss", ed |-> "regretsed"],
      [w |-> "regretted", s |-> "regretteds", ed |-> "regretteded"]>>

FACTIVE_VERBS == IterOrder("FACTIVE_VERBS", FactiveForms)

IMPLICATIVE_VERBS ==
    IterOrder("IMPLICATIVE_VERBS",
        <<"avoid", "avoided", "avoids", "forget", "forgets", "forgot",
          "forgotten", "happen", "happened", "happens", "manage", "managed",
          "manages">>)

CHANGE_OF_STATE_VERBS ==
    IterOrder("CHANGE_OF_STATE_VERBS",
        <<"arrive", "arrived", "arrives", "began", "begin", "begins",
          "continue", "continued", "continues", "leave", "leaves", "left",
          "resume", "resumed", "resumes", "start", "started", "starts", "stop",
          "stopped", "stops">>)

REPETITION_WORDS ==
    IterOrder("REPETITION_WORDS",
        <<"again", "restore", "restored", "return", "returned", "still">>)

\* Each phrase as its words; they are joined by single spaces.
EPISTEMIC_SHORTCUTS ==
    IterOrder("EPISTEMIC_SHORTCUTS",
        <<<<"as", "everyone", "knows">>, <<"as", "we", "all", "know">>,
          <<"certainly">>, <<"clearly">>, <<"everybody", "knows">>,
          <<"everyone", "knows">>, <<"evidently">>,
          <<"it", "goes", "without", "saying">>, <<"needless", "to", "say">>,
          <<"obviously">>, <<"of", "course">>, <<"self-evident">>>>)

UNIVERSAL_QUANTIFIERS ==
    IterOrder("UNIVERSAL_QUANTIFIERS",
        <<"all", "always", "anybody", "anyone", "everybody", "everyone",
          "never", "no one", "nobody", "none">>)

\* Where a regular expression ends without \b the last word may go on; no
\* word of the vocabulary continues one of these, so whole words stand.
VAGUE_AUTHORITY_PATTERNS ==
    << <<  <<Lit({"expert", "experts"})>>  >>,
       <<  <<Lit({"studie", "studies"}), Sp,
             Lit({"show", "suggest", "indicate", "find"})>>  >>,
       <<  <<Lit({"many"}), Sp, Lit({"people", "believe", "say", "think"})>>  >>,
       <<  <<Lit({"some", "most"}), Sp, Lit({"people"}), Sp,
             Lit({"believe", "say", "think"})>>  >>,
       <<  <<Lit({"its", "it's"}), Sp, Lit({"widely"}), Sp,
             Lit({"known", "believed", "accepted"})>>,
           <<Lit({"widely"}), Sp, Lit({"known", "believed", "accepted"})>>  >>,
       <<  <<Lit({"the"}), Sp, Lit({"people"})>>  >>,
       <<  <<Lit({"research"}), Sp, Lit({"shows", "suggests", "indicates"})>>  >> >>

CONCLUSION_MARKERS ==
    <<  <<Lit({"therefore", "thus", "hence", "so", "consequently"})>>  >>

LOADED_QUESTION_PATTERNS ==
    << <<  <<Lit({"why"}), Sp, Lit({"do"}), Sp, Lit({"you"}), Sp, Lit({"still"}), Sp>>  >>,
       <<  <<Lit({"when"}), Sp, Lit({"did"}), Sp, Lit({"you"}), Sp, Lit({"stop"}), Sp>>  >>,
       <<  <<Lit({"how"}), Sp, Lit({"could", "can"}), Sp, Lit({"you"}), Sp>>  >>,
       <<  <<Lit({"is"}), Sp, AnyWord, Sp, Lit({"really", "actually"}), Sp,
             Lit({"so", "that"}), Sp>>  >> >>

Pronoun3 == Lit({"he", "she", "they", "it"})

\* \bis\s+(?:he|she|they|it)\s+(?:\w+\s+)?(?:or\s+)?(?:\w+\s+)?\?
SUGGESTIVE_QUESTION_PATTERN ==
    << <<Lit({"is"}), Sp, Pronoun3, Sp, AnyWord, Sp, Lit({"or"}), Sp, AnyWord, Sp, Lit({"?"})>>,
       <<Lit({"is"}), Sp, Pronoun3, Sp, AnyWord, Sp, Lit({"or"}), Sp, Lit({"?"})>>,
       <<Lit({"is"}), Sp, Pronoun3, Sp, AnyWord, Sp, AnyWord, Sp, Lit({"?"})>>,
       <<Lit({"is"}), Sp, Pronoun3, Sp, AnyWord, Sp, Lit({"?"})>>,
       <<Lit({"is"}), Sp, Pronoun3, Sp, Lit({"?"})>> >>

\* _get_words_lower
_get_words_lower(s) == UNION {LetterRuns(s[i]) : i \in 1..Len(s)}

HEDGING_WORDS ==
    {"perhaps", "maybe", "might", "could", "possibly", "sometimes", "allegedly"}

\* The hedging penalty counted twice
HedgePenaltyDoubled == 2 * 10

HedgePenalty == 10

\* _hedging_penalty, in hundredths
_hedging_penalty(sentence) ==
    IF _get_words_lower(sentence) \cap HEDGING_WORDS # {} THEN HedgePenalty ELSE 0

_AssumptionMatch(description, trigger, sentence, confidence) ==
    [description |-> description, trigger |-> trigger, sentence |-> sentence,
     confidence |-> confidence]

FactiveBase == 75

ImplicativeBase == 65

ChangeOfStateBase == 68

RepetitionBase == 70

EpistemicBase == 80

UniversalBase == 55

VagueAuthorityBase == 65

StrongMarkerBase == 70

WeakMarkerBase == 55

LoadedQuestionBase == 85

SuggestiveQuestionBase == 75

FactiveDesc == "Presupposition: treats something as already established (factive verb)"

ImplicativeDesc == "Presupposition: implies unstated prior action or attempt (implicative verb)"

ChangeOfStateDesc == "Presupposition: assumes a prior state (change-of-state verb)"

RepetitionDesc == "Presupposition: implies prior occurrence (repetition/iteration)"

EpistemicDesc == "Presents claim as obvious without justification (epistemic shortcut)"

UniversalDesc == "Unstated universal claim: implies shared belief or blanket generalization"

VagueAuthorityDesc == "Vague authority invoked without specification"

EnthymemeDesc == "Conclusion marker suggests inference without full stated premises (enthymeme)"

LoadedQuestionDesc == "Loaded question: implies an assumption in the question itself"

SuggestiveQuestionDesc == "Suggestive question: stacked alternatives implying negative traits"

\* "w in words or f"{w}s " in lower or f" {w} " in lower or f" {w}ed " in lower"
FactiveHit(sentence, f) ==
    \/ f.w \in _get_words_lower(sentence)
    \/ \E i \in 1..(Len(sentence) - 1) :
          IsWord(sentence[i]) /\ EndsWith(sentence[i], f.s) /\ sentence[i + 1] = " "
    \/ \E i \in 2..(Len(sentence) - 1) :
          /\ sentence[i] \in {f.w, f.ed}
          /\ sentence[i - 1] = " " /\ sentence[i + 1] = " "

\* The match of the first element, in order, of a sequence of trigger words
\* that hits: "for w in WORDS: if <hit>: matches.append(...); break".
FirstWordMatch(sentence, ws, desc, base) ==
    LET words == _get_words_lower(sentence)
        k == FirstIndexWhere([i \in 1..Len(ws) |-> ws[i] \in words], 1)
    IN IF k = 0 THEN <<>>
       ELSE <<_AssumptionMatch(desc, <<ws[k]>>, sentence,
                               base - _hedging_penalty(sentence))>>

_check_presupposition_triggers(sentence) ==
    LET kf == FirstIndexWhere([i \in 1..Len(FACTIVE_VERBS) |->
                                  FactiveHit(sentence, FACTIVE_VERBS[i])], 1)
        factive ==
            IF kf = 0 THEN <<>>
            ELSE <<_AssumptionMatch(FactiveDesc, <<FACTIVE_VERBS[kf].w>>, sentence,
                                    FactiveBase - _hedging_penalty(sentence))>>
        kr == FirstIndexWhere([i \in 1..Len(REPETITION_WORDS) |->
                                  WholeWordSearch(sentence, REPETITION_WORDS[i]) # 0], 1)
        repetition ==
            IF kr = 0 THEN <<>>
            ELSE <<_AssumptionMatch(RepetitionDesc, <<REPETITION_WORDS[kr]>>, sentence,
                                    RepetitionBase - _hedging_penalty(sentence))>>
    IN factive
       \o FirstWordMatch(sentence, IMPLICATIVE_VERBS, ImplicativeDesc, ImplicativeBase)
       \o FirstWordMatch(sentence, CHANGE_OF_STATE_VERBS, ChangeOfStateDesc,
                         ChangeOfStateBase)
       \o repetition

RECURSIVE JoinWords(_)
\* " ".join(words)
JoinWords(ws) ==
    IF Len(ws) <= 1 THEN ws ELSE <<Head(ws), " ">> \o JoinWords(Tail(ws))

_check_epistemic_shortcuts(sentence) ==
    LET k == FirstIndexWhere([i \in 1..Len(EPISTEMIC_SHORTCUTS) |->
                                 PhraseIn(sentence, EPISTEMIC_SHORTCUTS[i])], 1)
    IN IF k = 0 THEN <<>>
       ELSE <<_AssumptionMatch(EpistemicDesc, JoinWords(EPISTEMIC_SHORTCUTS[k]),
                               sentence, EpistemicBase - _hedging_penalty(sentence))>>

_check_universal_quantifiers(sentence) ==
    FirstWordMatch(sentence, UNIVERSAL_QUANTIFIERS, UniversalDesc, UniversalBase)

MaxTriggerChars == 30

RECURSIVE TakeChars(_, _)
\* s[:n], cut at a symbol boundary
TakeChars(s, n) ==
    IF s = <<>> \/ Width(Head(s)) > n THEN <<>>
    ELSE <<Head(s)>> \o TakeChars(Tail(s), n - Width(Head(s)))

_check_vague_authority(sentence) ==
    LET m == FirstSearch(sentence, VAGUE_AUTHORITY_PATTERNS) IN
    IF m.at = 0 THEN <<>>
    ELSE <<_AssumptionMatch(VagueAuthorityDesc,
              TakeChars(SubSeq(sentence, m.at, m.to - 1), MaxTriggerChars),
              sentence, VagueAuthorityBase - _hedging_penalty(sentence))>>

_check_conclusion_markers(sentence) ==
    LET m == Search(sentence, CONCLUSION_MARKERS) IN
    IF m.at = 0 THEN <<>>
    ELSE LET marker == sentence[m.at]
             base == IF marker \in {"therefore", "thus", "hence"}
                     THEN StrongMarkerBase ELSE WeakMarkerBase
         IN <<_AssumptionMatch(EnthymemeDesc, <<marker>>, sentence,
                               base - _hedging_penalty(sentence))>>

_check_loaded_questions(sentence) ==
    IF ~(\E i \in 1..Len(sentence) : sentence[i] = "?") THEN <<>>
    ELSE IF FirstSearch(sentence, LOADED_QUESTION_PATTERNS).at # 0
    THEN <<_AssumptionMatch(LoadedQuestionDesc, <<>>, sentence,
                            LoadedQuestionBase - _hedging_penalty(sentence))>>
    ELSE IF Search(sentence, SUGGESTIVE_QUESTION_PATTERN).at # 0
    THEN <<_AssumptionMatch(SuggestiveQuestionDesc, <<>>, sentence,
                            SuggestiveQuestionBase - _hedging_penalty(sentence))>>
    ELSE <<>>

\* The matches of one sentence, in the order analyze extends all_matches.
SentenceMatches(sentence) ==
    _check_presupposition_triggers(sentence)
    \o _check_epistemic_shortcuts(sentence)
    \o _check_universal_quantifiers(sentence)
    \o _check_vague_authority(sentence)
    \o _check_conclusion_markers(sentence)
    \o _check_loaded_questions(sentence)

RECURSIVE AllMatches(_)
AllMatches(sentences) ==
    IF sentences = <<>> THEN <<>>
    ELSE SentenceMatches(Head(sentences)) \o AllMatches(Tail(sentences))

Min(a, b) == IF a <= b THEN a ELSE b

Max(a, b) == IF a >= b THEN a ELSE b

MaxConfidence == 95

\* max(0.0, min(0.95, confidence)), in hundredths
ClampConfidence(c) == Max(0, Min(MaxConfidence, c))

\* The full description: the description and, when there is one, the trigger.
FullDescription(m) == [desc |-> m.description, trigger |-> m.trigger]

AssumptionFlag(description, sentence, confidence) ==
    [description |-> description, sentence |-> sentence, confidence |-> confidence]

\* Every match becomes a flag, repeated or not
KeepAllAssumptions(matches, seen) ==
    [i \in 1..Len(matches) |->
        AssumptionFlag(FullDescription(matches[i]), matches[i].sentence,
                       ClampConfidence(matches[i].confidence))]

RECURSIVE DedupAssumptions(_, _)
\* "for m in all_matches: if full not in seen: ..."
DedupAssumptions(matches, seen) ==
    IF matches = <<>> THEN <<>>
    ELSE LET m == Head(matches)
             full == FullDescription(m)
         IN IF full \in seen THEN DedupAssumptions(Tail(matches), seen)
            ELSE <<AssumptionFlag(full, m.sentence, ClampConfidence(m.confidence))>>
                 \o DedupAssumptions(Tail(matches), seen \cup {full})

\* HiddenAssumptionExtractor.analyze
HiddenAssumptionAnalyze(s) ==
    IF IsBlank(s) THEN <<>>
    ELSE DedupAssumptions(AllMatches(split_sentences(s)), {})

-----------------------------------------------------------------------------
(***************************************************************************)
(* The lexicon directory: one JSON file per category.  A file is absent,   *)
(* holds a JSON array of terms, holds another JSON value, holds text that  *)
(* is not JSON, or cannot be opened.                                       *)
(***************************************************************************)
AbsentFile == [kind |-> "absent", terms |-> <<>>]

ArrayFile(terms) == [kind |-> "array", terms |-> terms]

OtherJsonFile == [kind |-> "other", terms |-> <<>>]

MalformedFile == [kind |-> "malformed", terms |-> <<>>]

UnreadableFile == [kind |-> "unreadable", terms |-> <<>>]

\* _load_lexicon: [raised |-> the exception that ends the call ("none": it
\* returns), out |-> the list it returns].  open() raises on a file that
\* cannot be opened and json.load on text that is not JSON.
_load_lexicon(file) ==
    IF file.kind = "absent" THEN [raised |-> "none", out |-> <<>>]
    ELSE IF file.kind = "unreadable" THEN [raised |-> "OSError", out |-> <<>>]
    ELSE IF file.kind = "malformed" THEN [raised |-> "JSONDecodeError", out |-> <<>>]
    ELSE IF file.kind = "array" THEN [raised |-> "none", out |-> file.terms]
    ELSE [raised |-> "none", out |-> <<>>]

\* The exception of the first of the loads, in order, that raises
FirstFailure(dir, names) ==
    IF \E k \in 1..Len(names) : _load_lexicon(dir[names[k]]).raised # "none"
    THEN _load_lexicon(dir[names[CHOOSE k \in 1..Len(names) :
            /\ _load_lexicon(dir[names[k]]).raised # "none"
            /\ \A j \in 1..(k - 1) : _load_lexicon(dir[names[j]]).raised = "none"]]).raised
    ELSE "none"

\* TriggerProfileAnalyzer.__init__: the term lists the analyzer keeps
TriggerProfileInit(dir) ==
    [raised |-> FirstFailure(dir, <<"fear", "authority", "identity">>),
     out |-> [fear |-> _load_lexicon(dir.fear).out,
              authority |-> _load_lexicon(dir.authority).out,
              identity |-> _load_lexicon(dir.identity).out]]

V3_DEFAULT_FEAR == <<"collapse", "destroy", "threat", "danger", "crisis">>

V3_DEFAULT_LIBERTY == <<"freedom", "liberty", "free", "rights", "oppression">>

\* if not self._fear: self._fear = [...]
OrDefault(terms, default) == IF terms = <<>> THEN default ELSE terms

\* NarrativeArcAnalyzer.__init__
NarrativeArcInit(dir) ==
    [raised |-> FirstFailure(dir, <<"fear", "authority", "identity">>),
     out |-> [fear |-> OrDefault(_load_lexicon(dir.fear).out, V3_DEFAULT_FEAR),
              authority |-> _load_lexicon(dir.authority).out,
              identity |-> _load_lexicon(dir.identity).out]]

\* TemporalDriftAnalyzer.__init__
TemporalDriftInit(dir) ==
    [raised |-> FirstFailure(dir, <<"fear", "authority", "identity", "liberty">>),
     out |-> [fear |-> OrDefault(_load_lexicon(dir.fear).out, V3_DEFAULT_FEAR),
              authority |-> _load_lexicon(dir.authority).out,
              identity |-> _load_lexicon(dir.identity).out,
              liberty |-> OrDefault(_load_lexicon(dir.liberty).out, V3_DEFAULT_LIBERTY)]]

(***************************************************************************)
(* models/report.py and analyzers/hidden_agenda.py                         *)
(***************************************************************************)

\* The fields of the dataclass AgendaFlag that have no default value.
AgendaFlagRequired == {"family", "technique", "pattern_hint", "sentence"}

\* The fields with a default value, and the value (confidence: float = 0.0).
AgendaFlagDefaults == [confidence |-> 0]

\* AgendaFlag(**kw): the generated __init__ raises TypeError when a field
\* without default is not passed.
NewAgendaFlag(kw) ==
    IF AgendaFlagRequired \subseteq DOMAIN kw
    THEN [raised |-> "none",
          flag |-> [f \in DOMAIN kw \cup DOMAIN AgendaFlagDefaults |->
                       IF f \in DOMAIN kw THEN kw[f] ELSE AgendaFlagDefaults[f]]]
    ELSE [raised |-> "TypeError", flag |-> <<>>]

WHATABOUTISM_PATTERNS ==
    << <<  <<Lit({"but"}), Sp, Lit({"what"}), Sp, Lit({"about"})>>,
           <<Lit({"what"}), Sp, Lit({"about"})>>  >>,
       <<  <<Lit({"how"}), Sp, Lit({"about"}), Sp, Lit({"when"})>>  >>,
       <<  <<Lit({"yet"}), Sp, Lit({"what", "how"}), Sp, Lit({"about"})>>  >> >>

\* The first pattern is found exactly where "this is not " is followed by a
\* word: every optional group may be empty and the final \w+ takes it.
SHIFTING_GOALPOST_PATTERNS ==
    << <<  <<Lit({"this"}), Sp, Lit({"is"}), Sp, Lit({"not"}), Sp, AnyWord>>  >>,
       <<  <<Lit({"thats", "that's"}), Sp, Lit({"not"}), Sp, AnyWord, Lit({"."}),
             Sp, Lit({"its", "it's", "thats", "that's"}), Sp>>,
           <<Lit({"thats", "that's"}), Sp, Lit({"not"}), Sp, AnyWord, Lit({"."}),
             Lit({"its", "it's", "thats", "that's"}), Sp>>  >> >>

\* ^ with re.MULTILINE followed by \s*: symbol i is at the start of the text
\* or of a line, or only whitespace lies between such a start and it.
LineStartBefore(s, i) ==
    \E p \in 1..i :
        /\ p = 1 \/ s[p - 1] = "\n"
        /\ \A u \in p..(i - 1) : IsSpace(s[u])

\* ^\s*meanwhile[,.]\s+
MeanwhileAtLineStart(s) ==
    \E i \in 1..Len(s) :
        /\ LineStartBefore(s, i)
        /\ MatchEnd(s, i, <<Lit({"meanwhile"}), Lit({"."}), Sp>>) # 0

SIDE_NOTE_PATTERNS ==
    << <<  <<Lit({"meanwhile"}), Lit({"."}), Sp, AnyWord>>  >>,
       <<  <<Lit({"in"}), Sp, Lit({"other"}), Sp, Lit({"news"}), Lit({"."}), Sp>>  >> >>

US_VS_THEM_PRONOUN_PATTERN ==
    <<  <<Lit({"they", "them", "their"}), Sp,
          Lit({"want", "are", "will", "have", "had"}), Sp>>  >>

US_VS_THEM_HOSTILE == {"poisoning", "enemy", "enemies", "invaders", "infest"}

GATEKEEPING_PATTERNS ==
    << <<  <<Lit({"the"}), Sp, Lit({"only"}), Sp, Lit({"real"}), Sp, AnyWord>>,
           <<Lit({"only"}), Sp, Lit({"real"}), Sp, AnyWord>>  >>,
       <<  <<Lit({"true"}), Sp,
             Lit({"believer", "believers", "patriot", "patriots", "american",
                  "americans"})>>  >>,
       <<  <<Lit({"genuine"}), Sp, AnyWord>>  >> >>

SPECULATION_PATTERNS ==
    << <<  <<Lit({"rumor", "rumors"})>>  >>,
       <<  <<Lit({"allegedly"})>>  >>,
       <<  <<Lit({"reportedly"})>>  >>,
       <<  <<Lit({"it"}), Sp, Lit({"has"}), Sp, Lit({"been"}), Sp, Lit({"widely"}),
             Sp, Lit({"reported", "rumored"})>>,
           <<Lit({"it"}), Sp, Lit({"has"}), Sp, Lit({"been"}), Sp,
             Lit({"reported", "rumored"})>>,
           <<Lit({"it"}), Sp, Lit({"been"}), Sp, Lit({"widely"}), Sp,
             Lit({"reported", "rumored"})>>,
           <<Lit({"it"}), Sp, Lit({"been"}), Sp, Lit({"reported", "rumored"})>>  >> >>

VAGUENESS_AGENDA_PATTERNS ==
    << <<  <<Lit({"expert", "experts"}), Sp,
             Lit({"say", "agree", "believe", "warn"})>>  >>,
       <<  <<Lit({"study", "studie", "studies"}), Sp,
             Lit({"show", "suggest", "indicate"})>>  >>,
       <<  <<Lit({"many"}), Sp, Lit({"people", "critics", "observers"}), Sp>>  >> >>

MUD_HONEY_PATTERNS ==
    << <<  <<Lit({"hypocrite", "liar", "crook", "fraud"})>>  >>,
       <<  <<Lit({"bedraggled", "terrifying"}), Sp, AnyWord>>  >> >>

DEFAULT_FEAR_TERMS ==
    IterOrder("DEFAULT_FEAR_TERMS",
        <<"collapse", "destroy", "threat", "danger", "catastrophe", "crisis",
          "terror", "disaster", "attack">>)

\* _load_lexicon(...) or list(DEFAULT_FEAR_TERMS)
AgendaFearTerms(lexicon) == IF lexicon # <<>> THEN lexicon ELSE DEFAULT_FEAR_TERMS

\* HiddenAgendaAnalyzer.__init__
HiddenAgendaInit(dir) ==
    [raised |-> _load_lexicon(dir.fear).raised,
     out |-> [fear |-> AgendaFearTerms(_load_lexicon(dir.fear).out)]]

Analyzers == {"TriggerProfileAnalyzer", "HiddenAgendaAnalyzer",
              "NarrativeArcAnalyzer", "TemporalDriftAnalyzer"}

\* analyzer(lexicon_dir): the exception of the construction and the term
\* lists the constructed analyzer scores with
Construction(analyzer, dir) ==
    IF analyzer = "TriggerProfileAnalyzer" THEN TriggerProfileInit(dir)
    ELSE IF analyzer = "HiddenAgendaAnalyzer" THEN HiddenAgendaInit(dir)
    ELSE IF analyzer = "NarrativeArcAnalyzer" THEN NarrativeArcInit(dir)
    ELSE TemporalDriftInit(dir)

Constructed(analyzer, c) ==
    [raised |-> c.raised,
     out |-> IF c.raised = "none" THEN [analyzer |-> analyzer, terms |-> c.out]
             ELSE [analyzer |-> analyzer, terms |-> <<>>]]

\* The keyword arguments of one AgendaFlag(...) call of analyze.
AgendaCall(family, technique, pattern_hint) ==
    [family |-> family, technique |-> technique, pattern_hint |-> pattern_hint]

When(hit, call) == IF hit THEN <<call>> ELSE <<>>

\* The AgendaFlag(...) calls analyze makes on a text, in order.
AgendaCalls(s, fear_terms) ==
    When(FirstSearch(s, WHATABOUTISM_PATTERNS).at # 0,
         AgendaCall("Deflecting", "Whataboutism",
                    "counter-accusation or deflection ('what about', 'how about')"))
    \o When(FirstSearch(s, SHIFTING_GOALPOST_PATTERNS).at # 0,
         AgendaCall("Deflecting", "Shifting Goalpost",
                    "relativizing by redefining ('this is not X, it's Y')"))
    \o When(MeanwhileAtLineStart(s) \/ FirstSearch(s, SIDE_NOTE_PATTERNS).at # 0,
         AgendaCall("Deflecting", "Side Note",
                    "diversion or tangential insertion ('Meanwhile', 'In other news')"))
    \o When(Search(s, US_VS_THEM_PRONOUN_PATTERN).at # 0,
         AgendaCall("Dividing", "Us vs Them",
                    "pronoun polarization ('they want', 'they are')"))
    \o When(\E w \in US_VS_THEM_HOSTILE : TermInText(s, w),
         AgendaCall("Dividing", "Us vs Them",
                    "dehumanizing or hostile out-group language"))
    \o When(FirstSearch(s, GATEKEEPING_PATTERNS).at # 0,
         AgendaCall("Dividing", "Gatekeeping",
                    "defining who 'truly' belongs ('only real', 'true patriots')"))
    \o When(FirstSearch(s, SPECULATION_PATTERNS).at # 0,
         AgendaCall("Asserting", "Speculation",
                    "speculative or unconfirmed framing ('rumors', 'allegedly')"))
    \o When(FirstSearch(s, VAGUENESS_AGENDA_PATTERNS).at # 0,
         AgendaCall("Asserting", "Vagueness", "vague authority without specification"))
    \o When(FirstSearch(s, MUD_HONEY_PATTERNS).at # 0,
         AgendaCall("Personalizing", "Mud & Honey",
                    "personal attack or derogatory framing"))
    \o When(\E i \in 1..Len(fear_terms) : TermInText(s, fear_terms[i]),
         AgendaCall("Framing", "Emotional Sensationalism", "fear or threat language"))

RECURSIVE DedupAgenda(_, _)
\* "for f in flags: key = (f.family, f.technique); if key not in seen: ..."
DedupAgenda(flags, seen) ==
    IF flags = <<>> THEN <<>>
    ELSE LET f == Head(flags)
             key == <<f.family, f.technique>>
         IN IF key \in seen THEN DedupAgenda(Tail(flags), seen)
            ELSE <<f>> \o DedupAgenda(Tail(flags), seen \cup {key})

\* The AgendaFlag constructions of one call of analyze, in order
AgendaFlagsMade(calls) == [i \in 1..Len(calls) |-> NewAgendaFlag(calls[i])]

\* The exception of the first construction that raises
FirstRaised(made) ==
    made[CHOOSE i \in 1..Len(made) :
            /\ made[i].raised # "none"
            /\ \A j \in 1..(i - 1) : made[j].raised = "none"].raised

AgendaOutcome(made) ==
    IF \E i \in 1..Len(made) : made[i].raised # "none"
    THEN [raised |-> FirstRaised(made), out |-> <<>>]
    ELSE [raised |-> "none",
          out |-> DedupAgenda([i \in 1..Len(made) |-> made[i].flag], {})]

\* HiddenAgendaAnalyzer.analyze: [raised |-> the exception that ends the
\* call ("none": it returns), out |-> the list it returns].
HiddenAgendaAnalyze(s, fear_terms) ==
    IF IsBlank(s) THEN [raised |-> "none", out |-> <<>>]
    ELSE AgendaOutcome(AgendaFlagsMade(AgendaCalls(s, fear_terms)))

\* HiddenAgendaAnalyzer(lexicon_dir).analyze(text)
HiddenAgendaRun(s, dir) ==
    IF HiddenAgendaInit(dir).raised # "none"
    THEN [raised |-> HiddenAgendaInit(dir).raised, out |-> <<>>]
    ELSE HiddenAgendaAnalyze(s, HiddenAgendaInit(dir).out.fear)

-----------------------------------------------------------------------------
(***************************************************************************)
(* analyzers/statistics.py, analyzers/tone.py, analyzers/modal_pronoun.py, *)
(* analyzers/trigger_profile.py                                            *)
(***************************************************************************)

\* StatisticsAnalyzer.analyze
StatisticsAnalyze(s) == <<count_words(s), count_sentences(s)>>

\* Keywords as phrases of words joined by single spaces.
URGENT ==
    {<<"must">>, <<"need">>, <<"now">>, <<"urgent">>, <<"immediately">>,
     <<"critical">>, <<"crisis">>}

DEFENSIVE ==
    {<<"protect">>, <<"defend">>, <<"against">>, <<"threat">>, <<"attack">>,
     <<"stand", "for">>}

FEAR_ORIENTED ==
    {<<"fear">>, <<"afraid">>, <<"danger">>, <<"collapse">>, <<"destroy">>,
     <<"threat">>, <<"crisis">>}

\* ToneAnalyzer.analyze
ToneAnalyze(s) ==
    (IF \E w \in URGENT : PhraseIn(s, w) THEN <<"Urgent">> ELSE <<>>)
    \o (IF \E w \in DEFENSIVE : PhraseIn(s, w) THEN <<"Defensive">> ELSE <<>>)
    \o (IF \E w \in FEAR_ORIENTED : PhraseIn(s, w) THEN <<"Fear-oriented">> ELSE <<>>)

MODAL_VERBS == {"must", "should", "could", "would", "might", "can", "will", "shall"}

PRONOUNS == <<"we", "they", "us", "them", "i", "you">>

\* re.sub(r"\W+", "", w) for one whitespace-separated token: the token's
\* word characters run together.  It is a word of the vocabulary exactly when
\* one plain word is all the token has of word characters; "" stands for
\* every other outcome.
CleanToken(tok) ==
    LET carriers == {k \in 1..Len(tok) : IsWord(tok[k]) \/ IsMarker(tok[k])} IN
    IF Cardinality(carriers) = 1 /\ \A k \in carriers : IsPlainWord(tok[k])
    THEN tok[CHOOSE k \in carriers : TRUE]
    ELSE ""

RECURSIVE FirstOccurrences(_, _)
\* The elements of a sequence in order, each once.
FirstOccurrences(q, seen) ==
    IF q = <<>> THEN <<>>
    ELSE IF Head(q) \in seen THEN FirstOccurrences(Tail(q), seen)
    ELSE <<Head(q)>> \o FirstOccurrences(Tail(q), seen \cup {Head(q)})

InGroupInsight == "Possible in-group / out-group framing"

\* ModalPronounAnalyzer.analyze; pronoun_insight "None" stands for None.
ModalPronounAnalyze(s) ==
    LET words == SplitWords(s)
        clean == [k \in 1..Len(words) |-> CleanToken(words[k])]
        count(p) == Cardinality({k \in 1..Len(clean) : clean[k] = p})
        used == {p \in {PRONOUNS[k] : k \in 1..Len(PRONOUNS)} : count(p) > 0}
        framing == [p \in used |-> count(p)]
    IN [modal_verbs |-> FirstOccurrences(SelectSeq(clean, LAMBDA c : c \in MODAL_VERBS), {}),
        pronoun_framing |-> framing,
        pronoun_insight |->
            IF count("we") + count("us") >= 1 /\ count("they") + count("them") >= 1
            THEN InGroupInsight ELSE "None"]

\* _count_matches: the number of entries of the term list that occur in text
_count_matches(s, terms) ==
    Cardinality({k \in 1..Len(terms) : TermInText(s, terms[k])})

ModerateMaxLow == 2 - 1

ModerateMax == 2

\* _count_to_level
_count_to_level(count) ==
    IF count = 0 THEN "Low" ELSE IF count <= ModerateMax THEN "Moderate" ELSE "High"

\* One category of TriggerProfileAnalyzer.analyze
TriggerLevel(s, terms) ==
    _count_to_level(IF terms # <<>> THEN _count_matches(s, terms) ELSE 0)

\* TriggerProfileAnalyzer.analyze, for the term lists its constructor loaded
TriggerProfileAnalyze(s, lexicons) ==
    [fear_level |-> TriggerLevel(s, lexicons.fear),
     authority_level |-> TriggerLevel(s, lexicons.authority),
     identity_level |-> TriggerLevel(s, lexicons.identity)]

\* TriggerProfileAnalyzer(lexicon_dir).analyze(text)
TriggerProfileRun(s, dir) ==
    IF TriggerProfileInit(dir).raised # "none"
    THEN [raised |-> TriggerProfileInit(dir).raised, out |-> <<>>]
    ELSE [raised |-> "none",
          out |-> TriggerProfileAnalyze(s, TriggerProfileInit(dir).out)]

-----------------------------------------------------------------------------
(***************************************************************************)
(* analyzers/satire.py.  Scores are in hundredths.                         *)
(***************************************************************************)

SatireSignal(name, description, score) ==
    [name |-> name, description |-> description, score |-> score]

\* Each regular expression as its alternatives.
ABSURD_OUTCOME_PHRASES ==
    << <<  <<Lit({"ruled"}), Sp1, Lit({"by"}), Sp1, Lit({"cats"})>>  >>,
       <<  <<Pre({"zombie"})>>  >>,
       <<  <<Lit({"chaos"}), Sp1, Lit({"ruled"}), Sp1, Lit({"by"})>>  >>,
       <<  <<Lit({"universe"}), Sp1, Lit({"will"}), Sp1, Lit({"collapse"})>>  >>,
       <<  <<Lit({"society"}), Sp1, Lit({"will"}), Sp1, Lit({"turn"}), Sp1,
             Lit({"into"}), Sp, AnyWord, Sp, Lit({"ruled", "run"}), Sp1, Pre({"by"})>>,
           <<Lit({"society"}), Sp1, Lit({"will"}), Sp1, Lit({"become"}), Sp,
             AnyWord, Sp, Lit({"ruled", "run"}), Sp1, Pre({"by"})>>  >>,
       <<  <<Lit({"melt", "explode", "implode"}), Sp, Lit({"into"}), Sp,
             Lit({"cats", "zombies", "bananas"})>>  >>,
       <<  <<Lit({"end"}), Sp1, Lit({"of"}), Sp1, Lit({"the"}), Sp1, Lit({"universe"})>>,
           <<Lit({"end"}), Sp1, Lit({"of"}), Sp1, Lit({"universe"})>>  >>,
       <<  <<Lit({"death"}), Sp1, Lit({"panel"})>>  >>,
       <<  <<Lit({"literally"}), Sp, Lit({"everything"})>>,
           <<Lit({"literally"}), Sp, Lit({"the"}), Sp1, Lit({"worst"})>>  >> >>

ABSURD_NOUNS ==
    {"cats", "dogs", "penguins", "zombies", "aliens", "unicorns", "clowns",
     "potatoes", "bananas", "robots"}

INCONGRUITY_PATTERN ==
    <<  <<Lit({"ruled", "run", "led", "controlled", "governed"}), Sp1, Lit({"by"}),
          Sp, AnyWord>>  >>

\* The part of DISPROPORTIONATE_ABSURD before ".*?": with or without "we",
\* with or without "one", and with k of the up to three words (\w+\s+).
DisproportionateHead(we, one, k) ==
    <<Lit({"if", "when"}), Sp>>
    \o (IF we THEN <<Lit({"we"}), Sp>> ELSE <<>>)
    \o <<Lit({"allow", "pass", "do"}), Sp>>
    \o (IF one THEN <<Lit({"one"}), Sp>> ELSE <<>>)
    \o <<Lit({"small", "tiny", "minor", "single"}), Sp>>
    \o [j \in 1..(2 * k) |-> IF j % 2 = 1 THEN AnyWord ELSE Sp]
    \o <<Lit({"change", "policy", "thing"})>>

MaxFillerWords == 3

\* The part after ".*?"; it has no \b at either end.
DisproportionateTail ==
    <<  <<Suf({"universe"}), Sp, Lit({"will"}), Sp, Pre({"collapse"})>>,
        <<Suf({"chaos"}), Sp, Lit({"ruled"}), Sp, Pre({"by"})>>,
        <<Suf({"ruled"}), Sp, Lit({"by"}), Sp, Pre({"cats", "zombies"})>>  >>

\* DISPROPORTIONATE_ABSURD.search(text)
DisproportionateSearch(s) ==
    \E i \in 1..Len(s), we \in BOOLEAN, one \in BOOLEAN, k \in 0..MaxFillerWords :
        LET e == MatchEnd(s, i, DisproportionateHead(we, one, k)) IN
        /\ e # 0
        /\ \E j \in e..Len(s), t \in 1..Len(DisproportionateTail) :
              MatchEnd(s, j, DisproportionateTail[t]) # 0

CONTRADICTION_MARKERS ==
    << <<  <<Lit({"because"}), Sp, Lit({"it"}), Sp, Lit({"completely"}), Sp,
             Lit({"ignores"})>>  >>,
       <<  <<Lit({"perfect"}), Sp, Lit({"because"}), Sp, Lit({"it"}), Sp,
             Lit({"ignores", "rejects"})>>  >>,
       <<  <<Lit({"the"}), Sp, Lit({"best"}), Sp, Lit({"plan"}), Sp, Lit({"that"}), Sp,
             Lit({"ignores"})>>  >> >>

GEOPOLITICAL_TERMS ==
    {"iran", "russia", "china", "korea", "syria", "iraq", "afghanistan",
     "military", "troops", "forces", "combat", "operations", "missiles",
     "nuclear", "weapons", "terrorist", "proxies", "regime", "administration",
     "congress", "senate", "president", "commander", "homeland", "vessels",
     "international", "shipping", "naval", "attack", "strike"}

AbsurdPhraseScore == 85

\* Half the score of an absurd noun
AbsurdNounScoreLow == 90 - 45

AbsurdNounScore == 90

DisproportionateScore == 80

RECURSIVE IncongruityFinditer(_, _)
\* "for m in INCONGRUITY_PATTERN.finditer(text): if m.group(1).lower() in
\* ABSURD_NOUNS": matches are taken left to right and do not overlap.
IncongruityFinditer(s, from) ==
    LET m == Search(SubSeq(s, from, Len(s)), INCONGRUITY_PATTERN) IN
    IF m.at = 0 THEN FALSE
    ELSE LET to == from + m.to - 1 IN
         \/ s[to - 1] \in ABSURD_NOUNS
         \/ IncongruityFinditer(s, to)

\* _absurdity_score
_absurdity_score(s) ==
    LET phrase == IF FirstSearch(s, ABSURD_OUTCOME_PHRASES).at # 0
                  THEN AbsurdPhraseScore ELSE 0
        noun == IF IncongruityFinditer(s, 1) THEN Max(phrase, AbsurdNounScore) ELSE phrase
    IN IF DisproportionateSearch(s) THEN Max(noun, DisproportionateScore) ELSE noun

\* A contradiction marker scored at the threshold of the signal
IncongruityScoreAtThreshold == 100 \div 2

IncongruityScore == 80

\* _incongruity_score
_incongruity_score(s) ==
    IF \E k \in 1..Len(CONTRADICTION_MARKERS) : Search(s, CONTRADICTION_MARKERS[k]).at # 0
    THEN IncongruityScore ELSE 0

HyperboleUniversals == {"never", "always", "all", "everyone", "everybody"}

CatastropheWords == {"collapse", "destroy", "chaos", "catastrophe"}

MagnitudePair ==
    <<  <<Lit({"thousands", "millions"}), Sp, Lit({"and"}), Sp,
          Lit({"thousands", "millions"})>>,
        <<Lit({"thousands", "millions"}), Sp, Lit({"thousands", "millions"})>>  >>

Totalizers == {"perfect", "completely", "totally"}

\* len(re.findall(r"\b(?:collapse|destroy|chaos|catastrophe|certain death)\b"))
CatastropheMatches(s) ==
    Cardinality({i \in 1..Len(s) :
        \/ s[i] \in CatastropheWords
        \/ MatchEnd(s, i, <<Lit({"certain"}), Sp1, Lit({"death"})>>) # 0})

UniversalBonus == 20

CatastropheBase == 20

CatastropheStep == 10

CatastropheCapHigh == 40 + 10

CatastropheCap == 40

MagnitudeBonus == 15

TotalizerBonus == 15

HyperboleFloor == 20

HyperboleCeiling == 70

\* The addends of _hyperbole_score.
HyperboleParts(s) ==
    [universal |-> IF \E i \in 1..Len(s) : s[i] \in HyperboleUniversals
                   THEN UniversalBonus ELSE 0,
     catastrophe |-> Min(CatastropheBase + CatastropheMatches(s) * CatastropheStep,
                         CatastropheCap),
     magnitude |-> IF Search(s, MagnitudePair).at # 0 THEN MagnitudeBonus ELSE 0,
     totalizer |-> IF \E i \in 1..Len(s) : s[i] \in Totalizers
                   THEN TotalizerBonus ELSE 0]

\* _hyperbole_score
_hyperbole_score(s) ==
    LET p == HyperboleParts(s) IN
    Min(Max(p.universal + p.catastrophe + p.magnitude + p.totalizer, HyperboleFloor),
        HyperboleCeiling)

\* In binary floating point 0.2 + 1 * 0.1 is 0.30000000000000004: with one
\* catastrophe match and nothing else added, the score is above 0.3.  It is
\* the one sum of the addends that a comparison of the analyzer tells from
\* its decimal value.
HyperboleAboveDecimal(s) ==
    LET p == HyperboleParts(s) IN
    /\ p.universal = 0 /\ p.magnitude = 0 /\ p.totalizer = 0
    /\ p.catastrophe = CatastropheBase + CatastropheStep

\* _context_plausibility_score; every geopolitical term has 4 letters or more
_context_plausibility_score(s) ==
    LET overlap == Cardinality(_get_words_lower(s) \cap GEOPOLITICAL_TERMS) IN
    IF overlap >= 5 THEN 90 ELSE IF overlap >= 3 THEN 70 ELSE IF overlap >= 1 THEN 50 ELSE 20

\* Probabilities are integers in this unit: every quotient
\* H * (A + 1.5 * I) / (0.5 + C) is a whole number of 1/840000.
ProbUnit == 840000

Hundredth == ProbUnit \div 100

MaxSatire == 95 * Hundredth

GateCap == 25 * Hundredth

SatireLikely == 50 * Hundredth

SatireUncertainZero == 0 * Hundredth

SatireUncertain == 25 * Hundredth

\* The signals list of SatireAnalyzer.analyze; above: the hyperbole score
\* is above its decimal value.  The dash in the last description is
\* written as a comma.
SatireSignals(H, A, I, C, above) ==
    (IF A > 0
     THEN <<SatireSignal("Absurdity",
                         "Semantic impossibility or playful exaggeration", A)>>
     ELSE <<>>)
    \o (IF I > 50
        THEN <<SatireSignal("Incongruity",
                            "Self-undermining or internal contradiction", I)>>
        ELSE <<>>)
    \o (IF H > 30 \/ (H = 30 /\ above)
        THEN <<SatireSignal("Hyperbole",
                   "Intensifiers, absolutism (also common in rhetoric)", H)>>
        ELSE <<>>)
    \o (IF C > 50
        THEN <<SatireSignal("Context plausibility",
                   "Real-world political/military discourse, lowers satire likelihood",
                   C)>>
        ELSE <<>>)

\* raw / divisor = H * (A + 1.5 * I) / (0.5 + C), in ProbUnit
SatireQuotient(H, A, I, C) ==
    H * (2 * A + 3 * I) * (ProbUnit \div (200 * (50 + C)))

\* The quotient without the cap and without the gate
SatireProbabilityUncapped(H, A, I, C) == SatireQuotient(H, A, I, C)

\* "probability = min(raw / divisor, 0.95)" and the gate
SatireProbability(H, A, I, C) ==
    IF A < 40 /\ I < 40
    THEN Min(Min(SatireQuotient(H, A, I, C), MaxSatire), GateCap)
    ELSE Min(SatireQuotient(H, A, I, C), MaxSatire)

SatireContentType(probability) ==
    IF probability >= SatireLikely THEN "Possibly Satire / Hyperbole"
    ELSE IF probability >= SatireUncertain THEN "Uncertain (some satire signals)"
    ELSE "Persuasive Rhetoric (low satire probability)"

\* SatireAnalyzer.analyze from its four scores
SatireResult(H, A, I, C, above) ==
    [probability |-> SatireProbability(H, A, I, C),
     signals |-> SatireSignals(H, A, I, C, above),
     content_type |-> SatireContentType(SatireProbability(H, A, I, C))]

\* SatireAnalyzer.analyze on a text that is not blank
SatireScore(s) ==
    SatireResult(_hyperbole_score(s), _absurdity_score(s), _incongruity_score(s),
                 _context_plausibility_score(s), HyperboleAboveDecimal(s))

SatireZero == [probability |-> 0, signals |-> <<>>, content_type |-> "Uncertain"]

\* SatireAnalyzer.analyze without its test of an empty text
SatireAnalyzeUnguarded(s) == SatireScore(s)

\* SatireAnalyzer.analyze
SatireAnalyze(s) == IF IsBlank(s) THEN SatireZero ELSE SatireScore(s)

-----------------------------------------------------------------------------
(***************************************************************************)
(* utils/youtube.py, v3/narrative_arc.py and main.py                       *)
(***************************************************************************)

HumorPhrases ==
    {<<"just", "kidding">>, <<"i'm", "joking">>, <<"just", "joking">>,
     <<"that", "was", "a", "joke">>, <<"comedic">>, <<"satire">>}

ComedyMarkers == {"[laughter]", "[laughs]", "[applause]", "[music]"}

ComedicNote == "Comedic or satirical context detected"

\* detect_comedic_context; "None" stands for None
detect_comedic_context(s) ==
    IF \/ \E i \in 1..Len(s) : s[i] \in ComedyMarkers
       \/ \E ph \in HumorPhrases : PhraseIn(s, ph)
    THEN ComedicNote ELSE "None"

RECURSIVE SubMarkers(_)
\* re.sub(r"\s*\[[\w\s]+\]\s*", ". ", text): each marker goes with the
\* whitespace around it.
SubMarkers(s) ==
    IF ~(\E j \in 1..Len(s) : IsMarker(s[j])) THEN s
    ELSE LET j == CHOOSE j \in 1..Len(s) :
                     IsMarker(s[j]) /\ \A u \in 1..(j - 1) : ~IsMarker(s[u])
             before == RStrip(SubSeq(s, 1, j - 1))
             after == LStrip(SubSeq(s, j + 1, Len(s)))
         IN before \o <<".", " ">> \o SubMarkers(after)

RECURSIVE CollapseSpaces(_)
\* re.sub(r"\s+", " ", text)
CollapseSpaces(s) ==
    IF s = <<>> THEN <<>>
    ELSE IF IsSpace(Head(s)) THEN <<" ">> \o CollapseSpaces(LStrip(s))
    ELSE <<Head(s)>> \o CollapseSpaces(Tail(s))

RECURSIVE SkipPeriods(_)
SkipPeriods(s) == IF s # <<>> /\ Head(s) = "." THEN SkipPeriods(Tail(s)) ELSE s

RECURSIVE CollapsePeriods(_)
\* re.sub(r"\.\s*\.+", ". ", text)
CollapsePeriods(s) ==
    IF s = <<>> THEN <<>>
    ELSE LET rest == LStrip(Tail(s)) IN
         IF Head(s) = "." /\ rest # <<>> /\ Head(rest) = "."
         THEN <<".", " ">> \o CollapsePeriods(SkipPeriods(rest))
         ELSE <<Head(s)>> \o CollapsePeriods(Tail(s))

\* preprocess_transcript
preprocess_transcript(s) ==
    IF IsBlank(s) THEN s ELSE Strip(CollapsePeriods(CollapseSpaces(SubMarkers(s))))

RECURSIVE JoinSentences(_)
\* " ".join(sentences)
JoinSentences(ss) ==
    IF ss = <<>> THEN <<>>
    ELSE IF Len(ss) = 1 THEN ss[1]
    ELSE ss[1] \o <<" ">> \o JoinSentences(Tail(ss))

\* Exact fractions stand for the floats of the scores: [num, den] in lowest
\* terms, den > 0.
RECURSIVE GCD(_, _)
GCD(a, b) == IF b = 0 THEN a ELSE GCD(b, a % b)

Frac(n, d) == [num |-> n \div GCD(n, d), den |-> d \div GCD(n, d)]

FracAdd(a, b) == Frac(a.num * b.den + b.num * a.den, a.den * b.den)

FracLess(a, b) == a.num * b.den < b.num * a.den

\* _count_to_normalized: min(count / word_count * 20, 1.0)
_count_to_normalized(count, word_count) ==
    IF word_count = 0 THEN Frac(0, 1)
    ELSE Frac(Min(20 * count, word_count), word_count)

INTENSITY_TERMS ==
    {"must", "need", "urgent", "critical", "crisis", "protect", "defend",
     "threat", "attack", "fear", "danger", "collapse", "destroy", "never",
     "always", "everyone", "everybody", "certain", "absolute", "total"}

\* sum(1 for w in re.findall(r"\b\w+\b", lower) if w in INTENSITY_TERMS)
IntensityCount(s) ==
    Cardinality(UNION {{<<i, w>> : w \in LetterRuns(s[i]) \cap INTENSITY_TERMS} :
                          i \in 1..Len(s)})

RECURSIVE ChunksFrom(_, _, _)
\* for i in range(i, len(sentences), chunk_size): chunks.append(...)
ChunksFrom(sentences, i, chunk_size) ==
    IF i >= Len(sentences) THEN <<>>
    ELSE << <<i, Min(i + chunk_size, Len(sentences)),
              JoinSentences(SubSeq(sentences, i + 1,
                                   Min(i + chunk_size, Len(sentences))))>> >>
         \o ChunksFrom(sentences, i + chunk_size, chunk_size)

ChunksOfOneLarger(sentences, chunk_size) == ChunksFrom(sentences, 0, chunk_size + 1)

\* The chunks of a list of sentences: range(0, len(sentences), chunk_size)
ChunksOf(sentences, chunk_size) == ChunksFrom(sentences, 0, chunk_size)

\* NarrativeArcAnalyzer._chunk_text: <<start_idx, end_idx, chunk_text>>
_chunk_text(s, chunk_size) ==
    IF ChunksOf(split_sentences(s), chunk_size) = <<>> /\ ~IsBlank(s)
    THEN << <<0, 1, Strip(s)>> >>
    ELSE ChunksOf(split_sentences(s), chunk_size)

\* NarrativeArcAnalyzer._analyze_chunk: the metrics that place the chunk and
\* the two that the escalation points are computed from.
_analyze_chunk(chunk_idx, start, end, chunk_text, fear_terms) ==
    [chunk_idx |-> chunk_idx,
     sentence_start |-> start,
     sentence_end |-> end,
     emotional_intensity |->
         _count_to_normalized(IntensityCount(chunk_text), Len(SplitWords(chunk_text))),
     threat_score |->
         _count_to_normalized(_count_matches(chunk_text, fear_terms),
                              Len(SplitWords(chunk_text)))]

RECURSIVE ArcMetricsFrom(_, _, _)
\* for idx, (start, end, chunk_text) in enumerate(chunks_data): ...
ArcMetricsFrom(chunks_data, idx, fear_terms) ==
    IF chunks_data = <<>> THEN <<>>
    ELSE <<_analyze_chunk(idx, Head(chunks_data)[1], Head(chunks_data)[2],
                          Head(chunks_data)[3], fear_terms)>>
         \o ArcMetricsFrom(Tail(chunks_data), idx + 1, fear_terms)

\* metrics_list
ArcMetrics(chunks_data, fear_terms) == ArcMetricsFrom(chunks_data, 0, fear_terms)

RECURSIVE Intensities(_)
\* intensities = [c.emotional_intensity + c.threat_score for c in metrics_list]
Intensities(metrics_list) ==
    IF metrics_list = <<>> THEN <<>>
    ELSE <<FracAdd(Head(metrics_list).emotional_intensity,
                   Head(metrics_list).threat_score)>>
         \o Intensities(Tail(metrics_list))

RECURSIVE FracSum(_)
FracSum(values) ==
    IF values = <<>> THEN Frac(0, 1) ELSE FracAdd(Head(values), FracSum(Tail(values)))

\* avg = sum(intensities) / len(intensities) if intensities else 0
Average(values) ==
    IF values = <<>> THEN Frac(0, 1)
    ELSE Frac(FracSum(values).num, FracSum(values).den * Len(values))

EscalationMarginBelow == Frac(0 - 15, 100)

EscalationMargin == Frac(15, 100)

EscalationFloorLow == Frac(1, 10)

EscalationFloor == Frac(3, 10)

\* [i for i, v in enumerate(intensities) if v > avg + 0.15 and v > 0.3]
Escalates(v, avg) ==
    FracLess(FracAdd(avg, EscalationMargin), v) /\ FracLess(EscalationFloor, v)

RECURSIVE EscalationFrom(_, _, _)
EscalationFrom(intensities, i, avg) ==
    IF intensities = <<>> THEN <<>>
    ELSE (IF Escalates(Head(intensities), avg) THEN <<i>> ELSE <<>>)
         \o EscalationFrom(Tail(intensities), i + 1, avg)

EscalationPoints(intensities) ==
    EscalationFrom(intensities, 0, Average(intensities))

ArcReport(metrics_list, total_sentences) ==
    [chunks |-> metrics_list,
     escalation_points |-> EscalationPoints(Intensities(metrics_list)),
     total_sentences |-> total_sentences]

\* NarrativeArcAnalyzer.analyze, for the chunk size and the fear terms of its
\* constructor: the chunks of its report and the escalation points.
NarrativeArcAnalyze(s, chunk_size, fear_terms) ==
    IF IsBlank(s)
    THEN [chunks |-> <<>>, escalation_points |-> <<>>,
          dominant_framing_shifts |-> <<>>, summary |-> "No text to analyze."]
    ELSE ArcReport(ArcMetrics(_chunk_text(s, chunk_size), fear_terms),
                   Len(split_sentences(s)))

\* NarrativeArcAnalyzer(lexicon_dir, chunk_size).analyze(text)
NarrativeArcRun(s, chunk_size, dir) ==
    IF NarrativeArcInit(dir).raised # "none"
    THEN [raised |-> NarrativeArcInit(dir).raised, out |-> <<>>]
    ELSE [raised |-> "none",
          out |-> NarrativeArcAnalyze(s, chunk_size, NarrativeArcInit(dir).out.fear)]

\* run_pipeline: the transcript branch is taken
IsTranscript(s, note) == (\E i \in 1..Len(s) : IsMarker(s[i])) /\ note = "None"

PipelineNote(s, note) == IF IsTranscript(s, note) THEN detect_comedic_context(s) ELSE note

PipelineText(s, note) == IF IsTranscript(s, note) THEN preprocess_transcript(s) ELSE s

\* The Report run_pipeline builds from the analyzers' results
Report(stats, trigger, tone, modal_pronoun, fallacies, assumptions, agenda_flags,
       context_note, satire) ==
    [word_count |-> stats[1],
     sentence_count |-> stats[2],
     trigger_profile |-> trigger,
     tone |-> tone,
     modal_verbs_detected |-> modal_pronoun.modal_verbs,
     pronoun_framing |-> modal_pronoun.pronoun_framing,
     pronoun_insight |-> modal_pronoun.pronoun_insight,
     logical_fallacy_flags |-> fallacies,
     hidden_assumptions |-> assumptions,
     hidden_agenda_flags |-> agenda_flags,
     context_note |-> context_note,
     satire_probability |-> satire.probability,
     content_type_hint |-> satire.content_type]

\* The analyzers of run_pipeline on the text t, in the order it calls them
PipelineOutcome(t, context_note, lexicons, agenda) ==
    IF agenda.raised # "none" THEN [raised |-> agenda.raised, report |-> <<>>]
    ELSE [raised |-> "none",
          report |-> Report(StatisticsAnalyze(t), TriggerProfileAnalyze(t, lexicons),
                            ToneAnalyze(t), ModalPronounAnalyze(t),
                            LogicalFallacyAnalyze(t), HiddenAssumptionAnalyze(t),
                            agenda.out, context_note, SatireAnalyze(t))]

\* The analyzers are constructed as they are used: the lexicons of the
\* trigger profile are loaded first.
PipelineOn(t, context_note, dir) ==
    IF TriggerProfileInit(dir).raised # "none"
    THEN [raised |-> TriggerProfileInit(dir).raised, report |-> <<>>]
    ELSE PipelineOutcome(t, context_note, TriggerProfileInit(dir).out,
                         HiddenAgendaRun(t, dir))

\* run_pipeline(text, context_note=note) with the lexicon directory of the
\* configuration: [raised |-> the exception that ends the call
\* ("none": it returns), report |-> the Report it returns].
run_pipeline(s, note, dir) ==
    PipelineOn(PipelineText(s, note), PipelineNote(s, note), dir)

-----------------------------------------------------------------------------
(***************************************************************************)
(* v3/contradiction.py.  A turn is [speaker, text]; min_overlap is in      *)
(* hundredths; overlaps, densities and probabilities are exact fractions.  *)
(***************************************************************************)
NEGATIONS == {"not", "never", "no", "nobody", "nothing", "neither", "nor", "without"}

NEGATION_VERBS == {"deny", "reject", "refuse", "dispute", "contradict"}

HEDGING == {"perhaps", "maybe", "might", "could", "possibly", "sometimes", "allegedly"}

QUESTION_WORDS == {"what", "when", "where", "why", "how", "who", "which"}

\* re.findall(r"\b\w+\b", lower), as a set
AllRuns(s) == UNION {LetterRuns(LowerSymbol(s[i])) : i \in 1..Len(s)}

\* term in text.lower()
TermInLower(s, term) ==
    \E i \in 1..Len(s) : IsWord(s[i]) /\ Contains(LowerSymbol(s[i]), term)

\* The number of characters of a run of word characters
RunWidth(w) ==
    IF w = "doesn" THEN 5 ELSE IF w = "applause" THEN 8
    ELSE IF w = "pause" THEN 5 ELSE Width(w)

_has_negation(s) ==
    \/ AllRuns(s) \cap NEGATIONS # {}
    \/ \E v \in NEGATION_VERBS : TermInLower(s, v)

\* set(re.findall(r"\b\w{3,}\b", lower))
ContentWords(s) == {w \in AllRuns(s) : RunWidth(w) >= 3}

_semantic_overlap(text_a, text_b) ==
    IF ContentWords(text_a) = {} \/ ContentWords(text_b) = {} THEN Frac(0, 1)
    ELSE Frac(Cardinality(ContentWords(text_a) \cap ContentWords(text_b)),
              Min(Cardinality(ContentWords(text_a)), Cardinality(ContentWords(text_b))))

\* re.sub(r"\W", "", w) in HEDGING, for a word of text.split()
IsHedge(w) ==
    /\ Cardinality({i \in 1..Len(w) : IsWord(w[i]) \/ IsMarker(w[i])}) = 1
    /\ \E i \in 1..Len(w) : LowerSymbol(w[i]) \in HEDGING

_hedging_density(s) ==
    IF SplitWords(s) = <<>> THEN Frac(0, 1)
    ELSE Frac(Cardinality({k \in 1..Len(SplitWords(s)) : IsHedge(SplitWords(s)[k])}),
              Len(SplitWords(s)))

\* stripped.endswith("?") alone
EndsWithQuestionMark(s) == Strip(s) # <<>> /\ Strip(s)[Len(Strip(s))] = "?"

_is_question(s) ==
    /\ Strip(s) # <<>>
    /\ Strip(s)[Len(Strip(s))] = "?"
    /\ \/ /\ Len(SplitWords(Strip(s))[1]) = 1
          /\ LowerSymbol(SplitWords(Strip(s))[1][1]) \in QUESTION_WORDS
       \/ /\ Len(Strip(s)) >= 2
          /\ Strip(s)[1] \in {"Do", "Did"}
          /\ Strip(s)[2] = " "

PreviewChars == 200

\* text[:n], for a text with a symbol boundary at n or shorter than n
PrefixChars(s, n) ==
    SubSeq(s, 1, CHOOSE k \in 0..Len(s) :
                    /\ CharLen(SubSeq(s, 1, k)) <= n
                    /\ k < Len(s) => CharLen(SubSeq(s, 1, k + 1)) > n)

\* text[:200] + ("..." if len(text) > 200 else "")
Preview(s) ==
    IF CharLen(s) > PreviewChars THEN PrefixChars(s, PreviewChars) \o <<"...">> ELSE s

\* f >= h / 100
AtLeastHundredths(f, h) == f.num * 100 >= h * f.den

FracMin(a, b) == IF FracLess(b, a) THEN b ELSE a

MinTurnCharsLow == 20 - 1

MinTurnChars == 20

\* neg_a != neg_b and overlap >= min_overlap and len(text_a) > 20 and len(text_b) > 20
IsContradiction(text_a, text_b, min_overlap) ==
    /\ _has_negation(text_a) # _has_negation(text_b)
    /\ AtLeastHundredths(_semantic_overlap(text_a, text_b), min_overlap)
    /\ CharLen(text_a) > MinTurnChars
    /\ CharLen(text_b) > MinTurnChars

\* min(0.5 + overlap * 0.5, 0.9)
ContradictionProbability(overlap) ==
    FracMin(FracAdd(Frac(1, 2), Frac(overlap.num, overlap.den * 2)), Frac(9, 10))

ContradictionPair(a, b) ==
    [speaker_a |-> a.speaker, text_a |-> Preview(a.text),
     speaker_b |-> b.speaker, text_b |-> Preview(b.text),
     probability |-> ContradictionProbability(_semantic_overlap(a.text, b.text)),
     contradiction_type |-> "direct"]

RECURSIVE ContradictionPairs(_, _, _)
\* for i in range(i, len(turns) - 1): ... pairs.append(...)
ContradictionPairs(ts, i, min_overlap) ==
    IF i > Len(ts) - 1 THEN <<>>
    ELSE (IF IsContradiction(ts[i].text, ts[i + 1].text, min_overlap)
          THEN <<ContradictionPair(ts[i], ts[i + 1])>> ELSE <<>>)
         \o ContradictionPairs(ts, i + 1, min_overlap)

\* The turns, but the last, that are questions
QuestionTurns(ts) == {i \in 1..(Len(ts) - 1) : _is_question(ts[i].text)}

\* _hedging_density(text_b) > 0.1 and overlap < 0.3
EvadedTurns(ts) ==
    {i \in QuestionTurns(ts) :
        /\ FracLess(Frac(1, 10), _hedging_density(ts[i + 1].text))
        /\ FracLess(_semantic_overlap(ts[i].text, ts[i + 1].text), Frac(3, 10))}

ContradictionReport(pairs, question_count, evasion_count, turn_count) ==
    [pairs |-> pairs,
     reframing_detected |-> Len(pairs) > 0,
     evasion_likelihood |-> Frac(evasion_count, question_count + 1),
     question_avoidance_detected |-> evasion_count >= 1 /\ question_count >= 1,
     summary |-> [turns |-> turn_count, contradictions |-> Len(pairs),
                  avoidance_likely |->
                      FracLess(Frac(3, 10), Frac(evasion_count, question_count + 1))]]

\* ContradictionAnalyzer.analyze(turns, min_overlap)
ContradictionAnalyze(ts, min_overlap) ==
    ContradictionReport(ContradictionPairs(ts, 1, min_overlap),
                        Cardinality(QuestionTurns(ts)), Cardinality(EvadedTurns(ts)),
                        Len(ts))

-----------------------------------------------------------------------------
(***************************************************************************)
(* The debate heatmap (v3/debate_heatmap.py).                              *)
(***************************************************************************)
DEBATE_INTENSITY_TERMS ==
    {"must", "need", "urgent", "critical", "crisis", "protect", "defend",
     "threat", "attack", "fear", "danger", "never", "always", "certain",
     "absolute", "everyone", "destroy", "collapse"}

DOMINANCE_TERMS == {"must", "shall", "will", "cannot", "never", "always", "everyone"}

CERTAINTY_MODALS == {"must", "will", "shall", "cannot"}

\* re.findall(r"\b\w+\b", lower), every occurrence told apart
RunOccurrences(s) == UNION {{<<i, w>> : w \in LetterRuns(s[i])} : i \in 1..Len(s)}

\* min(count / len(words) * 10, 1.0)
IntensityOf(words) ==
    IF words = {} THEN Frac(0, 1)
    ELSE Frac(Min(10 * Cardinality({o \in words : o[2] \in DEBATE_INTENSITY_TERMS}),
                  Cardinality(words)),
              Cardinality(words))

_intensity_score(s) == IntensityOf(RunOccurrences(s))

\* re.sub(r"\W", "", w) in terms, for a word of text.split()
IsTermWord(w, terms) ==
    /\ Cardinality({i \in 1..Len(w) : IsWord(w[i]) \/ IsMarker(w[i])}) = 1
    /\ \E i \in 1..Len(w) : w[i] \in terms

\* min(count / len(words) * scale, 1.0) over the words of text.split()
SplitScore(words, terms, scale) ==
    IF words = <<>> THEN Frac(0, 1)
    ELSE Frac(Min(scale * Cardinality({k \in 1..Len(words) : IsTermWord(words[k], terms)}),
                  Len(words)),
              Len(words))

_dominance_score(s) == SplitScore(SplitWords(s), DOMINANCE_TERMS, 5)

_certainty_score(s) == SplitScore(SplitWords(s), CERTAINTY_MODALS, 8)

TurnPreviewChars == 100

\* TurnMetrics(...) of the turn at index idx (from 0)
TurnMetricsOf(idx, turn) ==
    [speaker_id |-> turn.speaker,
     turn_idx |-> idx,
     text |-> IF CharLen(turn.text) > TurnPreviewChars
              THEN PrefixChars(turn.text, TurnPreviewChars) \o <<"...">>
              ELSE turn.text,
     emotional_intensity |-> _intensity_score(turn.text),
     dominance_score |-> _dominance_score(turn.text),
     certainty_score |-> _certainty_score(turn.text),
     word_count |-> Len(SplitWords(turn.text))]

RECURSIVE TurnMetricsFrom(_, _)
\* for idx, (speaker_id, text) in enumerate(turns): turn_metrics.append(...)
TurnMetricsFrom(ts, idx) ==
    IF idx >= Len(ts) THEN <<>>
    ELSE <<TurnMetricsOf(idx, ts[idx + 1])>> \o TurnMetricsFrom(ts, idx + 1)

RECURSIVE SpeakersFrom(_, _)
\* list(dict.fromkeys(s[0] for s in turns)): the speakers in the order of
\* their first turns
SpeakersFrom(ts, seen) ==
    IF ts = <<>> THEN <<>>
    ELSE IF ts[1].speaker \in seen THEN SpeakersFrom(Tail(ts), seen)
    ELSE <<ts[1].speaker>> \o SpeakersFrom(Tail(ts), seen \cup {ts[1].speaker})

SpeakersByLastTurn(ts) == Reverse(SpeakersFrom(Reverse(ts), {}))

SpeakersOf(ts) == SpeakersFrom(ts, {})

\* t.emotional_intensity + t.dominance_score * 0.5
CellIntensity(t) ==
    FracAdd(t.emotional_intensity, Frac(t.dominance_score.num, 2 * t.dominance_score.den))

FracMax(a, b) == IF FracLess(a, b) THEN b ELSE a

\* bin_size = max(1, len(turns) // time_bins)
BinSize(turn_count, time_bins) == Max(1, turn_count \div time_bins)

RECURSIVE CellFrom(_, _, _, _, _)
\* for t_idx in range(t_idx, end): heatmap[s_idx][bin_idx] = max(..., intensity)
\* for the row of one speaker
CellFrom(metrics, speaker, t_idx, end, cell) ==
    IF t_idx >= end THEN cell
    ELSE CellFrom(metrics, speaker, t_idx + 1, end,
                  IF metrics[t_idx + 1].speaker_id = speaker
                  THEN FracMax(cell, CellIntensity(metrics[t_idx + 1]))
                  ELSE cell)

RECURSIVE HeatmapRow(_, _, _, _, _)
\* for bin_idx in range(bin_idx, time_bins): start = bin_idx * bin_size,
\* end = min(start + bin_size, len(turns))
HeatmapRow(metrics, speaker, bin_idx, time_bins, bin_size) ==
    IF bin_idx >= time_bins THEN <<>>
    ELSE <<CellFrom(metrics, speaker, bin_idx * bin_size,
                    Min(bin_idx * bin_size + bin_size, Len(metrics)), Frac(0, 1))>>
         \o HeatmapRow(metrics, speaker, bin_idx + 1, time_bins, bin_size)

RECURSIVE HeatmapRows(_, _, _, _)
HeatmapRows(metrics, speakers, time_bins, bin_size) ==
    IF speakers = <<>> THEN <<>>
    ELSE <<HeatmapRow(metrics, speakers[1], 0, time_bins, bin_size)>>
         \o HeatmapRows(metrics, Tail(speakers), time_bins, bin_size)

RECURSIVE EscalationByTurn(_)
\* [t.emotional_intensity + t.dominance_score for t in turn_metrics]
EscalationByTurn(metrics) ==
    IF metrics = <<>> THEN <<>>
    ELSE <<FracAdd(metrics[1].emotional_intensity, metrics[1].dominance_score)>>
         \o EscalationByTurn(Tail(metrics))

\* sum(...) / len(s_turns) over the turns of one speaker
InfluenceOf(metrics, speaker) ==
    LET own == SelectSeq(metrics, LAMBDA t : t.speaker_id = speaker)
        total == FracSum(EscalationByTurn(own))
    IN Frac(total.num, total.den * Len(own))

HeatmapReport(metrics, speakers, time_bins, bin_size) ==
    [turns |-> metrics,
     speakers |-> speakers,
     heatmap_grid |-> HeatmapRows(metrics, speakers, time_bins, bin_size),
     escalation_by_turn |-> EscalationByTurn(metrics),
     influence_scores |->
         [s \in {speakers[i] : i \in 1..Len(speakers)} |-> InfluenceOf(metrics, s)]]

\* DebateHeatmapAnalyzer(time_bins).analyze(turns); the summary string and
\* viz_data repeat the fields modelled here.  len(turns) // 0 raises.
DebateHeatmapAnalyze(ts, time_bins) ==
    IF time_bins = 0 THEN [raised |-> "ZeroDivisionError", out |-> <<>>]
    ELSE [raised |-> "none",
          out |-> HeatmapReport(TurnMetricsFrom(ts, 0), SpeakersOf(ts), time_bins,
                                BinSize(Len(ts), time_bins))]

-----------------------------------------------------------------------------
(***************************************************************************)
(* Temporal drift over documents (v3/temporal_drift.py).  A document is    *)
(* [doc_id, date, text].                                                   *)
(***************************************************************************)

\* len(text.split()): the number of maximal runs of symbols that are not
\* whitespace
SplitCount(s) ==
    Cardinality({i \in 1..Len(s) : ~IsSpace(s[i]) /\ (i = 1 \/ IsSpace(s[i - 1]))})

\* _score_to_normalized: min(count / (word_count / 100), 1.0)
_score_to_normalized(count, word_count) ==
    IF word_count = 0 THEN Frac(0, 1)
    ELSE Frac(Min(100 * count, word_count), word_count)

\* TemporalDriftAnalyzer._profile_document
_profile_document(doc, lexicons) ==
    [doc_id |-> doc.doc_id,
     date |-> doc.date,
     fear |-> _score_to_normalized(_count_matches(doc.text, lexicons.fear),
                                   SplitCount(doc.text)),
     authority |-> _score_to_normalized(_count_matches(doc.text, lexicons.authority),
                                        SplitCount(doc.text)),
     identity |-> _score_to_normalized(_count_matches(doc.text, lexicons.identity),
                                       SplitCount(doc.text)),
     liberty |-> _score_to_normalized(_count_matches(doc.text, lexicons.liberty),
                                      SplitCount(doc.text)),
     word_count |-> SplitCount(doc.text)]

RECURSIVE Profiles(_, _)
\* for doc_id, date, text in documents: if text and text.strip(): append
Profiles(docs, lexicons) ==
    IF docs = <<>> THEN <<>>
    ELSE (IF IsBlank(docs[1].text) THEN <<>>
          ELSE <<_profile_document(docs[1], lexicons)>>)
         \o Profiles(Tail(docs), lexicons)

DriftDimensions == <<"fear", "authority", "identity", "liberty">>

FracSub(a, b) == Frac(a.num * b.den - b.num * a.den, a.den * b.den)

\* a / b for b > 0, common factors taken out before multiplying
FracDiv(a, b) ==
    Frac((a.num \div GCD(b.num, a.num % b.num)) * (b.den \div GCD(b.den, a.den)),
         (a.den \div GCD(b.den, a.den)) * (b.num \div GCD(b.num, a.num % b.num)))

Epsilon == Frac(1, 1000)

\* (delta / (v1 + 0.001)) * 100
PctFormula(v1, delta) ==
    FracDiv(Frac(100 * delta.num, delta.den), FracAdd(v1, Epsilon))

\* pct = (delta / (v1 + 0.001)) * 100 if v1 else 0
PctChange(v1, delta) == IF v1.num # 0 THEN PctFormula(v1, delta) ELSE Frac(0, 1)

DriftVector(dim, v1, v2) ==
    [dimension |-> dim, from_value |-> v1, to_value |-> v2,
     delta |-> FracSub(v2, v1), pct_change |-> PctChange(v1, FracSub(v2, v1))]

\* for dim in ("fear", "authority", "identity", "liberty"): append
VectorsOfPair(p1, p2) ==
    <<DriftVector("fear", p1.fear, p2.fear),
      DriftVector("authority", p1.authority, p2.authority),
      DriftVector("identity", p1.identity, p2.identity),
      DriftVector("liberty", p1.liberty, p2.liberty)>>

RECURSIVE DriftVectors(_, _)
\* for i in range(i - 1, len(profiles) - 1)
DriftVectors(profiles, i) ==
    IF i >= Len(profiles) THEN <<>>
    ELSE VectorsOfPair(profiles[i], profiles[i + 1]) \o DriftVectors(profiles, i + 1)

FracAbs(a) == IF a.num < 0 THEN Frac(0 - a.num, a.den) ELSE a

\* max(drift_vectors, key=lambda d: abs(d.delta)): the first of the largest
MaxDrift(vectors) ==
    vectors[CHOOSE k \in 1..Len(vectors) :
               /\ \A j \in 1..Len(vectors) :
                     ~FracLess(FracAbs(vectors[k].delta), FracAbs(vectors[j].delta))
               /\ \A j \in 1..(k - 1) :
                     FracLess(FracAbs(vectors[j].delta), FracAbs(vectors[k].delta))]

RECURSIVE Timeline(_)
Timeline(profiles) ==
    IF profiles = <<>> THEN <<>>
    ELSE <<[doc_id |-> profiles[1].doc_id, date |-> profiles[1].date,
            fear |-> profiles[1].fear, authority |-> profiles[1].authority,
            identity |-> profiles[1].identity, liberty |-> profiles[1].liberty]>>
         \o Timeline(Tail(profiles))

DriftReport(profiles, vectors) ==
    [profiles |-> profiles,
     drift_vectors |-> vectors,
     timeline_data |-> Timeline(profiles),
     summary |-> [documents |-> Len(profiles),
                  largest_shift |-> IF vectors = <<>> THEN "None"
                                    ELSE MaxDrift(vectors).dimension]]

\* TemporalDriftAnalyzer.analyze, for the term lists its constructor loaded
TemporalDriftAnalyze(docs, lexicons) ==
    DriftReport(Profiles(docs, lexicons), DriftVectors(Profiles(docs, lexicons), 1))

\* TemporalDriftAnalyzer(lexicon_dir).analyze(documents)
TemporalDriftRun(docs, dir) ==
    IF TemporalDriftInit(dir).raised # "none"
    THEN [raised |-> TemporalDriftInit(dir).raised, out |-> <<>>]
    ELSE [raised |-> "none", out |-> TemporalDriftAnalyze(docs, TemporalDriftInit(dir).out)]

-----------------------------------------------------------------------------
(***************************************************************************)
(* The state machine.  text is the input a caller is putting together, res *)
(* the outcome of the last call: the operation, the exception that ended   *)
(* it ("none" when it returned) and the value returned.  prev is the       *)
(* outcome of the same call in an earlier process, hashSeed the string     *)
(* hash seed of the running process, lex the files of the lexicon          *)
(* directory (the repository ships none: every file starts absent), turns  *)
(* the speaker turns and documents the dated documents a caller is putting *)
(* together.                                                               *)
(***************************************************************************)

\* The sets of strings the analyzers iterate.
SetNames ==
    {"FEAR_TERMS", "FACTIVE_VERBS", "IMPLICATIVE_VERBS", "CHANGE_OF_STATE_VERBS",
     "REPETITION_WORDS", "EPISTEMIC_SHORTCUTS", "UNIVERSAL_QUANTIFIERS",
     "DEFAULT_FEAR_TERMS"}

\* The hash seeds told apart: every set iterated in the order it is
\* written here, or every set in the opposite order.
Seeds == {{}, SetNames}

NoResult == [op |-> "none", raised |-> "none", out |-> <<>>]

Returned(op, out) == [op |-> op, raised |-> "none", out |-> out]

Init ==
    /\ text = <<>>
    /\ res = NoResult
    /\ prev = NoResult
    /\ hashSeed \in Seeds
    /\ lex = [fear |-> AbsentFile, authority |-> AbsentFile,
              identity |-> AbsentFile, liberty |-> AbsentFile]
    /\ turns = <<>>
    /\ documents = <<>>

\* A caller adds symbols to the input text, up to max symbols.  Two words
\* are never adjacent: adjacent word characters are one word.
Type(chunk, max) ==
    /\ res.op = "none" /\ prev.op = "none"
    /\ Len(text) + Len(chunk) <= max
    /\ ~(text # <<>> /\ IsWord(text[Len(text)]) /\ IsWord(chunk[1]))
    /\ text' = text \o chunk
    /\ UNCHANGED <<res, prev, hashSeed, lex, turns, documents>>

\* split_sentences_with_offsets(text)
Segment ==
    /\ res.op = "none"
    /\ res' = Returned("split", split_sentences_with_offsets(text))
    /\ UNCHANGED <<text, prev, hashSeed, lex, turns, documents>>

\* LogicalFallacyAnalyzer().analyze(text)
AnalyzeFallacy ==
    /\ res.op = "none"
    /\ res' = Returned("fallacy", LogicalFallacyAnalyze(text))
    /\ UNCHANGED <<text, prev, hashSeed, lex, turns, documents>>

\* HiddenAssumptionExtractor().analyze(text)
AnalyzeAssumptions ==
    /\ res.op = "none"
    /\ res' = Returned("assumptions", HiddenAssumptionAnalyze(text))
    /\ UNCHANGED <<text, prev, hashSeed, lex, turns, documents>>

\* The outcome of a call that returns r.out or raises r.raised
Outcome(op, r) == [op |-> op, raised |-> r.raised, out |-> r.out]

\* HiddenAgendaAnalyzer().analyze(text)
AnalyzeAgenda ==
    /\ res.op = "none"
    /\ res' = Outcome("agenda", HiddenAgendaRun(text, lex))
    /\ UNCHANGED <<text, prev, hashSeed, lex, turns, documents>>

\* TriggerProfileAnalyzer(lexicon_dir).analyze(text)
AnalyzeTriggerProfile ==
    /\ res.op = "none"
    /\ res' = Outcome("trigger", TriggerProfileRun(text, lex))
    /\ UNCHANGED <<text, prev, hashSeed, lex, turns, documents>>

\* One of the analyzers is constructed on the lexicon directory
Construct ==
    /\ res.op = "none"
    /\ \E analyzer \in Analyzers :
          res' = Outcome("construct", Constructed(analyzer, Construction(analyzer, lex)))
    /\ UNCHANGED <<text, prev, hashSeed, lex, turns, documents>>

\* The environment puts a file into the lexicon directory, replaces one or
\* removes one, before any text is handled.
WriteLexicon(name, file) ==
    /\ res.op = "none" /\ prev.op = "none" /\ text = <<>>
    /\ lex[name] # file
    /\ lex' = [lex EXCEPT ![name] = file]
    /\ UNCHANGED <<text, res, prev, hashSeed, turns, documents>>

\* A caller adds a turn to the turns it will pass
AddTurn(speaker, s, max) ==
    /\ res.op = "none" /\ prev.op = "none"
    /\ Len(turns) < max
    /\ turns' = Append(turns, [speaker |-> speaker, text |-> s])
    /\ UNCHANGED <<text, res, prev, hashSeed, lex, documents>>

\* ContradictionAnalyzer().analyze(turns, min_overlap)
AnalyzeContradiction(min_overlap) ==
    /\ res.op = "none"
    /\ res' = [op |-> "contradiction", min_overlap |-> min_overlap, raised |-> "none",
               out |-> ContradictionAnalyze(turns, min_overlap)]
    /\ UNCHANGED <<text, prev, hashSeed, lex, turns, documents>>

\* SatireAnalyzer().analyze(text)
AnalyzeSatire ==
    /\ res.op = "none"
    /\ res' = Returned("satire", SatireAnalyze(text))
    /\ UNCHANGED <<text, prev, hashSeed, lex, turns, documents>>

MaxChunkSize == 2

\* The result of an analyzer that was constructed with chunk_size = k
ArcOutcome(k, r) ==
    [op |-> "arc", chunk_size |-> k, raised |-> r.raised, out |-> r.out]

\* NarrativeArcAnalyzer(chunk_size=k).analyze(text)
AnalyzeNarrativeArc ==
    /\ res.op = "none"
    /\ \E k \in 1..MaxChunkSize :
          res' = ArcOutcome(k, NarrativeArcRun(text, k, lex))
    /\ UNCHANGED <<text, prev, hashSeed, lex, turns, documents>>

ContextNotes == {"None", "note of the caller"}

PipelineResult(r) == [op |-> "pipeline", raised |-> r.raised, out |-> r.report]

\* run_pipeline(text, context_note=note)
RunPipeline ==
    /\ res.op = "none"
    /\ \E note \in ContextNotes : res' = PipelineResult(run_pipeline(text, note, lex))
    /\ UNCHANGED <<text, prev, hashSeed, lex, turns, documents>>

MaxBins == 3

\* The result of an analyzer that was constructed with time_bins = n
HeatmapOutcome(n, r) ==
    [op |-> "heatmap", time_bins |-> n, raised |-> r.raised, out |-> r.out]

\* DebateHeatmapAnalyzer(time_bins=n).analyze(turns)
AnalyzeHeatmap ==
    /\ res.op = "none"
    /\ \E n \in 0..MaxBins : res' = HeatmapOutcome(n, DebateHeatmapAnalyze(turns, n))
    /\ UNCHANGED <<text, prev, hashSeed, lex, turns, documents>>

\* A caller adds a document to the list
AddDocument(doc, max) ==
    /\ res.op = "none" /\ prev.op = "none"
    /\ Len(documents) < max
    /\ documents' = Append(documents, doc)
    /\ UNCHANGED <<text, res, prev, hashSeed, lex, turns>>

\* TemporalDriftAnalyzer().analyze(documents)
AnalyzeDrift ==
    /\ res.op = "none"
    /\ res' = Outcome("drift", TemporalDriftRun(documents, lex))
    /\ UNCHANGED <<text, prev, hashSeed, lex, turns, documents>>

\* The local variables of run_pipeline that hold the analyzers' results
PipelineAnalyzers ==
    {"satire", "stats", "trigger", "tone", "modal_pronoun", "fallacies", "assumptions",
     "agenda_flags"}

\* An analyzer that finds results of other analyzers already there and
\* works on the text they left: none does
AnalyzerInputShared(t, locals) == IF DOMAIN locals = {} THEN t ELSE Strip(t) \o <<".">>

\* What an analyzer line of run_pipeline reads: the text, whatever the
\* other lines have assigned
AnalyzerInput(t, locals) == t

\* One analyzer line of run_pipeline (lines 29-39), on the text t
AnalyzerRun(a, t, dir) ==
    CASE a = "satire" -> [raised |-> "none", out |-> SatireAnalyze(t)]
      [] a = "stats" -> [raised |-> "none", out |-> StatisticsAnalyze(t)]
      [] a = "trigger" -> TriggerProfileRun(t, dir)
      [] a = "tone" -> [raised |-> "none", out |-> ToneAnalyze(t)]
      [] a = "modal_pronoun" -> [raised |-> "none", out |-> ModalPronounAnalyze(t)]
      [] a = "fallacies" -> [raised |-> "none", out |-> LogicalFallacyAnalyze(t)]
      [] a = "assumptions" -> [raised |-> "none", out |-> HiddenAssumptionAnalyze(t)]
      [] a = "agenda_flags" -> HiddenAgendaRun(t, dir)

\* return Report(...) from the local variables
ReportOf(locals, context_note) ==
    Report(locals.stats, locals.trigger, locals.tone, locals.modal_pronoun,
           locals.fallacies, locals.assumptions, locals.agenda_flags, context_note,
           locals.satire)

\* The state of a call after the line of analyzer a, whose outcome is r
AfterLine(call, a, r, context_note) ==
    IF r.raised # "none"
    THEN [op |-> "permuted", note |-> call.note, last |-> a, raised |-> r.raised,
          out |-> <<>>]
    ELSE IF DOMAIN call.out \cup {a} = PipelineAnalyzers
    THEN [op |-> "permuted", note |-> call.note, last |-> a, raised |-> "none",
          out |-> ReportOf((a :> r.out) @@ call.out, context_note)]
    ELSE [call EXCEPT !.out = (a :> r.out) @@ call.out]

\* run_pipeline(text, context_note=note) is entered: the transcript test
\* and the preprocessing of lines 23-27 come before every analyzer
EnterPipeline ==
    /\ res.op = "none"
    /\ \E note \in ContextNotes :
          res' = [op |-> "lines", note |-> note, raised |-> "none", out |-> <<>>]
    /\ UNCHANGED <<text, prev, hashSeed, lex, turns, documents>>

\* The analyzer lines of run_pipeline, taken in any order: the line of an
\* analyzer that has not run yet; after the last one the Report is built
RunLine ==
    /\ res.op = "lines"
    /\ \E a \in PipelineAnalyzers \ DOMAIN res.out :
          res' = AfterLine(res, a,
                           AnalyzerRun(a, AnalyzerInput(PipelineText(text, res.note),
                                                        res.out), lex),
                           PipelineNote(text, res.note))
    /\ UNCHANGED <<text, prev, hashSeed, lex, turns, documents>>

\* The same call is made again in a new process, which has its own hash
\* seed: the outcome of the first process is kept for comparison.
Restart ==
    /\ res.op # "none" /\ prev.op = "none"
    /\ prev' = res
    /\ res' = NoResult
    /\ hashSeed' \in Seeds
    /\ UNCHANGED <<text, lex, turns, documents>>

(***************************************************************************)
(* The segmenter on short texts.                                           *)
(***************************************************************************)
MaxLenSegment == 6

SegmentAlphabet == {"a", "ok", "the", " ", ".", "?"}

TypeSegment == \E c \in SegmentAlphabet : Type(<<c>>, MaxLenSegment)

NextSegment == TypeSegment \/ Segment

SpecSegment == Init /\ [][NextSegment]_vars

(***************************************************************************)
(* Every operation on empty, blank and short texts.                        *)
(***************************************************************************)
MaxLenBlank == 4

BlankAlphabet == {" ", "\n", "ok", ".", "[pause]"}

TypeBlank == \E c \in BlankAlphabet : Type(<<c>>, MaxLenBlank)

NextBlank ==
    \/ TypeBlank
    \/ Segment
    \/ AnalyzeSatire
    \/ AnalyzeNarrativeArc
    \/ AnalyzeFallacy
    \/ AnalyzeAssumptions
    \/ AnalyzeAgenda
    \/ RunPipeline

SpecBlank == Init /\ [][NextBlank]_vars

(***************************************************************************)
(* The three pattern analyzers on texts of trigger words, a hedge word and *)
(* sentence ends.                                                          *)
(***************************************************************************)
MaxLenFlags == 5

FlagAlphabet ==
    {"everyone", "nobody", "knew", "maybe", "thus", "threat", "liar", " ", "."}

TypeFlags == \E c \in FlagAlphabet : Type(<<c>>, MaxLenFlags)

NextFlags == TypeFlags \/ AnalyzeFallacy \/ AnalyzeAssumptions \/ AnalyzeAgenda

SpecFlags == Init /\ [][NextFlags]_vars

(***************************************************************************)
(* The fallacy analyzer on either/or constructions and fear terms.         *)
(***************************************************************************)
MaxLenFallacy == 4

EitherOr == <<"either", " ", "yes", " ", "or", " ">>

HasEither == \E i \in 1..Len(text) : text[i] = "either"

FallacyAlphabet == {"ok", "no", "not", "threatening", " ", "."}

\* At most one either/or construction, and MaxLenFallacy symbols besides it
TypeFallacy ==
    \/ \E c \in FallacyAlphabet :
          Type(<<c>>, IF HasEither THEN MaxLenFallacy + Len(EitherOr) ELSE MaxLenFallacy)
    \/ ~HasEither /\ Type(EitherOr, MaxLenFallacy + Len(EitherOr))

NextFallacy == TypeFallacy \/ AnalyzeFallacy \/ Segment

SpecFallacy == Init /\ [][NextFallacy]_vars

(***************************************************************************)
(* The agenda analyzer and the pipeline on texts that match agenda rules.  *)
(***************************************************************************)
MaxLenAgenda == 5

AgendaAlphabet == {"they", "want", "enemy", "knew", "ok", " ", "."}

(***************************************************************************)
(* DebateHeatmapAnalyzer on turns of two speakers in any order.            *)
(***************************************************************************)
MaxHeatTurns == 4

HeatSpeakers == {"A", "B"}

\* Cell intensities 0, 5/12 and 3/2
HeatTexts ==
    {<<"ok">>,
     <<"we", " ", "will", " ", "raise", " ", "taxes", " ", "now", " ", "ok">>,
     <<"we", " ", "must", " ", "ok", ".">>}

HeatTurn == \E speaker \in HeatSpeakers, s \in HeatTexts : AddTurn(speaker, s, MaxHeatTurns)

NextHeatmap == HeatTurn \/ AnalyzeHeatmap

\* No set is iterated: one hash seed stands for all
InitHeatmap == Init /\ hashSeed = {}

SpecHeatmap == InitHeatmap /\ [][NextHeatmap]_vars

(***************************************************************************)
(* TemporalDriftAnalyzer on documents with densities 0, 1/2 and 1, with    *)
(* and without lexicon files for authority and liberty.                    *)
(***************************************************************************)
MaxDocs == 3

HalfWords == 200

\* "threat ok ok ... ok" of n words: one fear term in n words
OneThreatIn(n) ==
    [i \in 1..(2 * n - 1) |-> IF i = 1 THEN "threat" ELSE IF i % 2 = 0 THEN " " ELSE "ok"]

DocTexts ==
    {<<"threat">>, <<"ok">>, <<" ">>, OneThreatIn(HalfWords),
     <<"we", " ", "must", " ", "ok", " ", "plan">>}

\* The first document carries a date, the others none
NextDocument(s) ==
    [doc_id |-> Len(documents) + 1,
     date |-> IF documents = <<>> THEN "2023-01" ELSE "None",
     text |-> s]

WriteDocument == \E s \in DocTexts : AddDocument(NextDocument(s), MaxDocs)

DriftFiles(name) ==
    IF name = "authority" THEN {AbsentFile, ArrayFile(<<"must">>)}
    ELSE {AbsentFile, ArrayFile(<<"plan">>)}

PutDriftLexicon ==
    \E name \in {"authority", "liberty"} : \E file \in DriftFiles(name) :
        documents = <<>> /\ WriteLexicon(name, file)

NextDrift == WriteDocument \/ PutDriftLexicon \/ AnalyzeDrift

\* No set is iterated: one hash seed stands for all
InitDrift == Init /\ hashSeed = {}

SpecDrift == InitDrift /\ [][NextDrift]_vars

(***************************************************************************)
(* SatireAnalyzer on texts of hyperbole phrases: universal quantifiers,    *)
(* catastrophe words, magnitude pairs and totalizing adjectives.           *)
(***************************************************************************)
MaxHyperbolePhrases == 4

HyperbolePhrases ==
    {<<"never">>, <<"chaos">>, <<"certain", " ", "death">>,
     <<"millions", " ", "and", " ", "millions">>, <<"perfect">>, <<"ok">>}

CountOf(s, c) == Cardinality({i \in 1..Len(s) : s[i] = c})

\* The number of phrases of a text: its spaces but those inside phrases
PhraseCount(s) ==
    IF s = <<>> THEN 0
    ELSE 1 + CountOf(s, " ") - CountOf(s, "certain") - 2 * CountOf(s, "and")

\* A caller adds a phrase to the input text, a space before it
TypeHyperbole ==
    /\ res.op = "none" /\ prev.op = "none"
    /\ PhraseCount(text) < MaxHyperbolePhrases
    /\ \E phrase \in HyperbolePhrases :
          text' = IF text = <<>> THEN phrase ELSE text \o <<" ">> \o phrase
    /\ UNCHANGED <<res, prev, hashSeed, lex, turns, documents>>

NextHyperbole == TypeHyperbole \/ AnalyzeSatire

SpecHyperbole == Init /\ [][NextHyperbole]_vars

(***************************************************************************)
(* The analyzer lines of run_pipeline in every order, on short texts with  *)
(* a transcript marker, with and without a malformed fear lexicon.         *)
(***************************************************************************)
MaxLenOrder == 2

OrderAlphabet == {"everyone", "threat", "[applause]", " ", "."}

TypeOrder == \E c \in OrderAlphabet : Type(<<c>>, MaxLenOrder)

BreakLexicon == \E file \in {AbsentFile, MalformedFile} : WriteLexicon("fear", file)

NextOrder == TypeOrder \/ BreakLexicon \/ EnterPipeline \/ RunLine

\* One hash seed: both calls compared run in the same process
InitOrder == Init /\ hashSeed = {}

SpecOrder == InitOrder /\ [][NextOrder]_vars

(***************************************************************************)
(* SatireAnalyzer on texts with and without absurdity and contradiction    *)
(* markers, after whitespace or not.                                       *)
(***************************************************************************)
MaxGateSentences == 3

GateSentences ==
    {<<"all", " ", "chaos", ".">>,
     <<"iran", ".">>,
     <<"troops", " ", "military", ".">>,
     <<"ruled", " ", "by", " ", "cats", ".">>,
     <<"the", " ", "best", " ", "plan", " ", "that", " ", "ignores", " ", "facts", ".">>}

\* The number of sentence terminators of a text
Terminated(s) == Cardinality({i \in 1..Len(s) : IsTerm(s[i])})

\* A caller starts the text with whitespace
TypeGateSpace ==
    /\ res.op = "none" /\ prev.op = "none"
    /\ text = <<>>
    /\ text' = <<" ">>
    /\ UNCHANGED <<res, prev, hashSeed, lex, turns, documents>>

\* A caller adds a sentence to the input text
TypeGate ==
    /\ res.op = "none" /\ prev.op = "none"
    /\ Terminated(text) < MaxGateSentences
    /\ \E sentence \in GateSentences : text' = text \o sentence
    /\ UNCHANGED <<res, prev, hashSeed, lex, turns, documents>>

NextGate == TypeGateSpace \/ TypeGate \/ AnalyzeSatire

SpecGate == Init /\ [][NextGate]_vars

(***************************************************************************)
(* ContradictionAnalyzer on turns of two speakers.                         *)
(***************************************************************************)
MaxTurns == 3

DefaultMinOverlap == 15

MinOverlaps == {0, DefaultMinOverlap, 50}

RaiseTaxes == <<"we", " ", "will", " ", "raise", " ", "taxes", " ", "now">>

\* Eight times "we will raise taxes now ", 192 characters
RECURSIVE Repeated(_, _)
Repeated(s, n) == IF n = 0 THEN <<>> ELSE s \o <<" ">> \o Repeated(s, n - 1)

\* 215 characters, the negation after the first 200
LongTurn ==
    Repeated(RaiseTaxes, 8) \o <<"we", " ", "will", " ", "not", " ", "raise", " ", "taxes">>

TurnTexts ==
    {RaiseTaxes,
     <<"we", " ", "never", " ", "raise", " ", "taxes", " ", "now">>,
     <<"we", " ", "will", " ", "raise", " ", "taxes", ".">>,
     <<"they", " ", "rejected", " ", "the", " ", "plan", " ", "that", " ", "we", " ", "want">>,
     LongTurn,
     <<"what", " ", "about", " ", "taxes", " ", "now", "?">>,
     <<"maybe", " ", "we", " ", "could", " ", "raise", " ", "the", " ", "plan">>}

\* The two speakers take turns
NextSpeaker == IF Len(turns) % 2 = 0 THEN "A" ELSE "B"

SayTurn == \E s \in TurnTexts : AddTurn(NextSpeaker, s, MaxTurns)

CallContradiction == \E min_overlap \in MinOverlaps : AnalyzeContradiction(min_overlap)

NextContradiction == SayTurn \/ CallContradiction

\* No set is iterated: one hash seed stands for all
InitContradiction == Init /\ hashSeed = {}

SpecContradiction == InitContradiction /\ [][NextContradiction]_vars

(***************************************************************************)
(* ContradictionAnalyzer on questions and answers.                         *)
(***************************************************************************)
MaxQuestionTurns == 4

\* Two questions, a question without its capital letter, an answer that
\* hedges and shares a word with the second question, an answer without
\* hedge words, an answer that hedges and shares nothing
QuestionTexts ==
    {<<"what", " ", "about", " ", "taxes", " ", "now", "?">>,
     <<"Do", " ", "you", " ", "raise", " ", "taxes", "?">>,
     <<"do", " ", "you", " ", "raise", " ", "taxes", "?">>,
     <<"maybe", " ", "we", " ", "could", " ", "raise", " ", "the", " ", "plan">>,
     <<"we", " ", "will", " ", "raise", " ", "taxes", " ", "now">>,
     <<"maybe", " ", "ok">>}

AskOrAnswer == \E s \in QuestionTexts : AddTurn(NextSpeaker, s, MaxQuestionTurns)

NextQuestions == AskOrAnswer \/ AnalyzeContradiction(DefaultMinOverlap)

SpecQuestions == InitContradiction /\ [][NextQuestions]_vars

(***************************************************************************)
(* The lexicon directory and the analyzers that read it.                   *)
(***************************************************************************)
MaxLenLexicon == 5

LexiconAlphabet == {"threat", "fear", "crisis", " "}

LexiconNames == {"fear", "authority", "identity", "liberty"}

LexiconFiles(name) ==
    IF name = "fear"
    THEN {AbsentFile, OtherJsonFile, MalformedFile, UnreadableFile,
          ArrayFile(<<"threat">>), ArrayFile(<<"threat", "fear", "crisis">>)}
    ELSE IF name = "authority"
    THEN {AbsentFile, MalformedFile, ArrayFile(<<"fear">>)}
    ELSE IF name = "identity"
    THEN {AbsentFile, ArrayFile(<<"crisis", "threat">>)}
    ELSE {AbsentFile, OtherJsonFile}

TypeLexicon == \E c \in LexiconAlphabet : Type(<<c>>, MaxLenLexicon)

PutLexicon == \E name \in LexiconNames : \E file \in LexiconFiles(name) : WriteLexicon(name, file)

NextLexicon == TypeLexicon \/ PutLexicon \/ AnalyzeTriggerProfile \/ Construct

SpecLexicon == Init /\ [][NextLexicon]_vars

TypeAgenda == \E c \in AgendaAlphabet : Type(<<c>>, MaxLenAgenda)

NextAgenda == TypeAgenda \/ AnalyzeAgenda \/ AnalyzeAssumptions \/ RunPipeline

SpecAgenda == Init /\ [][NextAgenda]_vars

(***************************************************************************)
(* The same analysis in two processes.                                     *)
(***************************************************************************)
MaxLenRuns == 4

RunsAlphabet == {"knew", "realized", "threat", "crisis", " ", "."}

TypeRuns == \E c \in RunsAlphabet : Type(<<c>>, MaxLenRuns)

NextRuns ==
    \/ TypeRuns
    \/ AnalyzeFallacy
    \/ AnalyzeAssumptions
    \/ RunPipeline
    \/ Restart

SpecRuns == Init /\ [][NextRuns]_vars

(***************************************************************************)
(* The satire analyzer on texts made of whole sentences.                   *)
(***************************************************************************)
MaxSatireSentences == 3

\* The sentence of test_satire_detects_cats_example, in lower case
CatsExample ==
    <<"if", " ", "we", " ", "allow", " ", "one", " ", "small", " ", "policy", " ",
      "change,", " ", "the", " ", "universe", " ", "will", " ", "collapse", " ",
      "and", " ", "society", " ", "will", " ", "turn", " ", "into", " ", "chaos",
      " ", "ruled", " ", "by", " ", "cats", ".">>

\* The sentence of test_self_undermining_contradiction, in lower case
SelfUnderminingExample ==
    <<"this", " ", "policy", " ", "is", " ", "perfect", " ", "because", " ", "it",
      " ", "completely", " ", "ignores", " ", "facts,", " ", "data,", " ", "and",
      " ", "common", " ", "sense", ".">>

SatireSentences ==
    {CatsExample,
     SelfUnderminingExample,
     <<"the", " ", "best", " ", "plan", " ", "that", " ", "ignores", " ", "facts", ".">>,
     <<"ruled", " ", "by", " ", "cats", ".">>,
     <<"all", " ", "chaos", ".">>,
     <<"collapse", ".">>,
     <<"iran", ".">>,
     <<"troops", " ", "military", ".">>,
     <<"forces", " ", "regime", ".">>}

\* A caller adds a sentence to the input text
TypeSatire ==
    /\ res.op = "none" /\ prev.op = "none"
    /\ Terminated(text) < MaxSatireSentences
    /\ \E sentence \in SatireSentences : text' = text \o sentence
    /\ UNCHANGED <<res, prev, hashSeed, lex, turns, documents>>

NextSatire == TypeSatire \/ AnalyzeSatire

SpecSatire == Init /\ [][NextSatire]_vars

(***************************************************************************)
(* NarrativeArcAnalyzer on documents of whole sentences: short ones, and   *)
(* a long one with one intensity term among filler words.                  *)
(***************************************************************************)
MaxArcSentences == 4

LongWords == 70

\* "must ok ok ... ok." of n words
Padded(n) ==
    [i \in 1..(2 * n) |->
        IF i = 1 THEN "must" ELSE IF i = 2 * n THEN "." ELSE IF i % 2 = 0 THEN " " ELSE "ok"]

ArcSentences ==
    {<<"threat", ".">>, <<"ok", ".">>, <<"must", " ", "ok", ".">>,
     <<"threatening", " ", "ok", " ", "ok", ".">>, Padded(LongWords)}

\* A caller adds a sentence to the document; the long one can only open it
TypeArc ==
    /\ res.op = "none" /\ prev.op = "none"
    /\ Terminated(text) < MaxArcSentences
    /\ \E sentence \in ArcSentences :
          /\ sentence = Padded(LongWords) => text = <<>>
          /\ text' = IF text = <<>> THEN sentence ELSE text \o <<" ">> \o sentence
    /\ UNCHANGED <<res, prev, hashSeed, lex, turns, documents>>

NextArc == TypeArc \/ AnalyzeNarrativeArc

SpecArc == Init /\ [][NextArc]_vars

\* Every operation on every text of the segmenter's alphabet.
Next == NextSegment \/ NextBlank \/ Restart

Spec == Init /\ [][Next]_vars

(***************************************************************************)
(* Properties of the specification                                         *)
(***************************************************************************)

\* The flags of the result of a call that returned a list of flags
FlagsReturned ==
    IF res.op \in {"fallacy", "assumptions", "agenda"} /\ res.raised = "none"
    THEN res.out ELSE <<>>

\* C1: every FallacyFlag, AssumptionFlag and AgendaFlag an analyzer returns
\* carries a confidence between 0 and 0.95 inclusive (0..95 hundredths).
C1_ConfidenceInRange ==
    \A i \in 1..Len(FlagsReturned) :
        /\ FlagsReturned[i].confidence >= 0
        /\ FlagsReturned[i].confidence <= 95

\* C1 happens: one call returned a fallacy flag and an earlier text made
\* the assumption extractor lower a confidence for hedging.
C1_Witness ==
    /\ res.op = "fallacy"
    /\ \E i \in 1..Len(res.out) : res.out[i].name = "Appeal to Fear"
    /\ \E i \in 1..Len(HiddenAssumptionAnalyze(text)) :
          HiddenAssumptionAnalyze(text)[i].confidence = UniversalBase - HedgePenalty

\* The Report of run_pipeline on a text without words
EmptyReport(note) ==
    [word_count |-> 0, sentence_count |-> 0,
     trigger_profile |-> [fear_level |-> "Low", authority_level |-> "Low",
                          identity_level |-> "Low"],
     tone |-> <<>>, modal_verbs_detected |-> <<>>, pronoun_framing |-> <<>>,
     pronoun_insight |-> "None", logical_fallacy_flags |-> <<>>,
     hidden_assumptions |-> <<>>, hidden_agenda_flags |-> <<>>,
     context_note |-> note, satire_probability |-> 0,
     content_type_hint |-> "Uncertain"]

\* C2: on an empty or whitespace-only text no analyzer raises and each
\* returns its zero value: run_pipeline a Report with zero counts, empty
\* collections and Low trigger levels, SatireAnalyzer (0.0, [], "Uncertain"),
\* the segmenter an empty sequence, NarrativeArcAnalyzer no chunks, and the
\* three pattern analyzers no flags.
C2_BlankTextZeroValues ==
    (IsBlank(text) /\ res.op # "none") =>
        /\ res.raised = "none"
        /\ res.op = "pipeline" => \E note \in ContextNotes : res.out = EmptyReport(note)
        /\ res.op = "satire" =>
              res.out = [probability |-> 0, signals |-> <<>>, content_type |-> "Uncertain"]
        /\ res.op = "split" => res.out = <<>>
        /\ res.op = "arc" => res.out.chunks = <<>>
        /\ res.op \in {"fallacy", "assumptions", "agenda"} => res.out = <<>>

\* C2 happens: the satire analyzer has run on a text of two or more
\* whitespace characters.
C2_Witness ==
    /\ Len(text) >= 2 /\ IsBlank(text)
    /\ res.op = "satire"

\* C3: on every text that is not empty HiddenAgendaAnalyzer.analyze returns
\* normally a list of AgendaFlag values, each with family, technique,
\* pattern_hint, sentence and confidence, and so run_pipeline returns a
\* Report for every text.
C3_AgendaReturnsNormally ==
    /\ res.op \in {"agenda", "pipeline"} => res.raised = "none"
    /\ res.op = "agenda" =>
          \A i \in 1..Len(res.out) :
              {"family", "technique", "pattern_hint", "sentence", "confidence"}
                  \subseteq DOMAIN res.out[i]

\* The sentence of the first either/or construction: from "either" to the
\* first terminator after it.
EitherOrSentence(s) ==
    SubSeq(s, FalseDilemmaMatch(s),
           IF NextTerm(s, FalseDilemmaMatch(s)) = 0 THEN Len(s)
           ELSE NextTerm(s, FalseDilemmaMatch(s)))

HasFallacy(flags, name) == \E i \in 1..Len(flags) : flags[i].name = name

\* C4: a text with an "either X or Y" construction gets a False Dilemma
\* flag exactly when Y, the clause after "or" within the construction, has
\* no negation marker and (last word of X, first word of Y) is not a
\* complementary pair, whatever sentences stand before or after it.
C4_FalseDilemmaIff ==
    (/\ res.op = "fallacy"
     /\ FalseDilemmaMatch(text) # 0
     /\ EitherOrCapture(EitherOrSentence(text)).found
     /\ \E k \in 1..Len(EitherOrCapture(EitherOrSentence(text)).second) :
            IsWord(EitherOrCapture(EitherOrSentence(text)).second[k])) =>
        (HasFallacy(res.out, "False Dilemma")
            <=> ~_is_genuine_dichotomy(EitherOrSentence(text)))

\* The sentences the segmenter returns whose span [start, end) holds the
\* character offset o
SentencesSpanning(s, o) ==
    {t \in {split_sentences_with_offsets(s)[k] :
               k \in 1..Len(split_sentences_with_offsets(s))} :
        t.start <= o /\ o < t.end}

\* The character offsets at which a fear term occurs in the text, as a
\* word or inside one
FearOffsets(s) ==
    {Offset(s, i) : i \in {k \in 1..Len(s) :
                             \E f \in 1..Len(FEAR_TERMS) : Contains(s[k], FEAR_TERMS[f])}}

\* C5: the sentence of every FallacyFlag is a sentence the segmenter
\* returns for the text, and that sentence's span contains the start of the
\* match that triggered the flag (here: an occurrence of a fear term).
C5_FlagSentenceHoldsTrigger ==
    res.op = "fallacy" =>
        \A i \in 1..Len(res.out) :
            res.out[i].name = "Appeal to Fear" =>
                \E o \in FearOffsets(text) : \E t \in SentencesSpanning(text, o) :
                    t.sent = res.out[i].sentence

\* The hedge words of the confidence rule
HedgeWords == {"perhaps", "maybe", "might", "could", "possibly", "sometimes", "allegedly"}

\* The penalty of the confidence rule: 0.1 when the sentence has a hedge word
PenaltyOf(sentence) ==
    IF \E k \in 1..Len(sentence) : sentence[k] \in HedgeWords THEN 10 ELSE 0

\* The base confidence of the rule family of an assumption flag
BaseOfAssumption(d) ==
    CASE d.desc = LoadedQuestionDesc -> 85
      [] d.desc = FactiveDesc -> 75
      [] d.desc = UniversalDesc -> 55
      [] d.desc = EnthymemeDesc ->
            IF d.trigger \in {<<"therefore">>, <<"thus">>, <<"hence">>} THEN 70 ELSE 55
      [] d.desc = ImplicativeDesc -> ImplicativeBase
      [] d.desc = ChangeOfStateDesc -> ChangeOfStateBase
      [] d.desc = RepetitionDesc -> RepetitionBase
      [] d.desc = EpistemicDesc -> EpistemicBase
      [] d.desc = VagueAuthorityDesc -> VagueAuthorityBase
      [] d.desc = SuggestiveQuestionDesc -> SuggestiveQuestionBase

\* The base confidence of a fallacy flag's rule family
BaseOfFallacy(name) ==
    CASE name = "False Dilemma" -> 80
      [] name = "Appeal to Fear" -> 65
      [] name = "Ad Hominem / Attack" -> 75

Clamp(c) == IF c < 0 THEN 0 ELSE IF c > 95 THEN 95 ELSE c

C7_OneFlagPerFamily ==
    /\ res.op = "assumptions" =>
          \A i, j \in 1..Len(res.out) :
              res.out[i].description.desc = res.out[j].description.desc => i = j
    /\ res.op = "fallacy" =>
          \A i, j \in 1..Len(res.out) : res.out[i].name = res.out[j].name => i = j

\* C7 (amended): a family contributes at most one flag per sentence and at
\* most one flag per trigger word in the text; two sentences with different
\* trigger words of one family give two flags.  A fallacy family gives at
\* most one flag per text.
C7_OneFlagPerFamilyAndTrigger ==
    /\ res.op = "assumptions" =>
          \A i, j \in 1..Len(res.out) :
              /\ res.out[i].description = res.out[j].description => i = j
              /\ (/\ res.out[i].description.desc = res.out[j].description.desc
                  /\ res.out[i].sentence = res.out[j].sentence) => i = j
    /\ res.op = "fallacy" =>
          \A i, j \in 1..Len(res.out) : res.out[i].name = res.out[j].name => i = j

\* C7 happens: two sentences of the text trigger the same family with the
\* same word and the result holds one flag.
C7_Witness ==
    /\ res.op = "assumptions"
    /\ Len(res.out) = 1
    /\ Len(AllMatches(split_sentences(text))) = 2

RECURSIVE FirstOfEachKey(_, _)
\* The elements of a sequence that are the first with their key
FirstOfEachKey(keys, seen) ==
    IF keys = <<>> THEN <<>>
    ELSE IF Head(keys) \in seen THEN FirstOfEachKey(Tail(keys), seen)
    ELSE <<Head(keys)>> \o FirstOfEachKey(Tail(keys), seen \cup {Head(keys)})

\* The (family, technique) keys of the agenda flags a text produces, in
\* production order
AgendaKeysProduced(s) ==
    [i \in 1..Len(AgendaCalls(s, HiddenAgendaInit(lex).out.fear)) |->
        <<AgendaCalls(s, HiddenAgendaInit(lex).out.fear)[i].family,
          AgendaCalls(s, HiddenAgendaInit(lex).out.fear)[i].technique>>]

\* The full descriptions of the assumption matches of a text, in order
DescriptionsProduced(s) ==
    [i \in 1..Len(AllMatches(split_sentences(s))) |->
        FullDescription(AllMatches(split_sentences(s))[i])]

\* C8: deduplication keeps the first occurrence.  The result of
\* HiddenAgendaAnalyzer.analyze holds, for each (family, technique)
\* produced, exactly the first flag produced with it, and the result of
\* HiddenAssumptionExtractor.analyze, for each full description, the first
\* match with it; kept flags keep their production order.
C8_DedupKeepsFirst ==
    /\ res.op = "agenda" =>
          /\ res.raised = "none"
          /\ [i \in 1..Len(res.out) |-> <<res.out[i].family, res.out[i].technique>>]
                = FirstOfEachKey(AgendaKeysProduced(text), {})
    /\ res.op = "assumptions" =>
          [i \in 1..Len(res.out) |-> res.out[i].description]
              = FirstOfEachKey(DescriptionsProduced(text), {})

\* The call of the second process is the call of the first one: the same
\* operation on the same text, with the same context note.
SameCallTwice ==
    /\ res.op # "none" /\ prev.op = res.op
    /\ (res.op = "pipeline" /\ res.raised = "none" /\ prev.raised = "none")
          => res.out.context_note = prev.out.context_note

\* C9: two runs of an analyzer, or of run_pipeline, on the same text return
\* identical results (same flags, same trigger word in each description,
\* same sentence, same order), whatever the iteration order of the
\* trigger-word sets.
C9_Deterministic == SameCallTwice => prev = res

\* The assumption flags of the result with the given family description
\* whose sentence contains one of the given words
FlagsOf(desc, words) ==
    {i \in 1..Len(res.out) :
        /\ res.out[i].description.desc = desc
        /\ \E k \in 1..Len(res.out[i].sentence) : res.out[i].sentence[k] \in words}

HasWord(s, words) == \E i \in 1..Len(s) : s[i] \in words

\* C10: whenever a text contains a trigger of an assumption rule family
\* anywhere in it (here a universal quantifier, a factive verb, a conclusion
\* marker), HiddenAssumptionExtractor.analyze returns at least one flag of
\* that family whose sentence contains the trigger.
C10_TriggerYieldsFlag ==
    res.op = "assumptions" =>
        /\ HasWord(text, {"everyone", "nobody"})
              => FlagsOf(UniversalDesc, {"everyone", "nobody"}) # {}
        /\ HasWord(text, {"knew"}) => FlagsOf(FactiveDesc, {"knew"}) # {}
        /\ HasWord(text, {"thus"}) => FlagsOf(EnthymemeDesc, {"thus"}) # {}

\* The four scores of the text, in hundredths
ScoreH == _hyperbole_score(text)

ScoreA == _absurdity_score(text)

ScoreI == _incongruity_score(text)

ScoreC == _context_plausibility_score(text)

\* p, a probability in ProbUnit, is min(H * (A + 1.5 * I) / (0.5 + C), cap)
\* for a cap in hundredths: the division is stated by its product.
IsCappedQuotient(p, cap) ==
    \/ /\ p * (50 + ScoreC) = ScoreH * (2 * ScoreA + 3 * ScoreI) * (ProbUnit \div 200)
       /\ ScoreH * (2 * ScoreA + 3 * ScoreI) * 100 <= cap * 200 * (50 + ScoreC)
    \/ /\ p * 100 = cap * ProbUnit
       /\ ScoreH * (2 * ScoreA + 3 * ScoreI) * 100 >= cap * 200 * (50 + ScoreC)

C12_CatsExampleAtLeastSixty ==
    (res.op = "satire" /\ text = CatsExample) =>
        /\ res.out.probability * 100 >= 60 * ProbUnit
        /\ res.out.content_type = "Possibly Satire / Hyperbole"
        /\ Len(res.out.signals) >= 1

\* C12 (amended): for that text the probability is 18/35 (0.514...), which
\* is at least 0.5, the content type is "Possibly Satire / Hyperbole", and
\* the signals are Absurdity (0.9) and Hyperbole (0.4).
C12_CatsExampleAtLeastHalf ==
    (res.op = "satire" /\ text = CatsExample) =>
        /\ res.out.probability * 35 = 18 * ProbUnit
        /\ res.out.probability * 100 >= 50 * ProbUnit
        /\ res.out.content_type = "Possibly Satire / Hyperbole"
        /\ [i \in 1..Len(res.out.signals) |->
               <<res.out.signals[i].name, res.out.signals[i].score>>]
              = << <<"Absurdity", 90>>, <<"Hyperbole", 40>> >>

\* C12 happens: the analyzer has run on the text of the example.
C12_Witness == res.op = "satire" /\ text = CatsExample /\ Len(res.out.signals) = 2

HasSignal(name) ==
    \E i \in 1..Len(res.out.signals) : res.out.signals[i].name = name

\* C13 as stated: every text that matches a self-undermining contradiction
\* marker gets the signal "Incongruity" and a probability of at least 0.5,
\* whatever its hyperbole and context-plausibility scores.
C13_MarkerAtLeastHalf ==
    (res.op = "satire" /\ ScoreI > 0) =>
        /\ HasSignal("Incongruity")
        /\ res.out.probability * 100 >= 50 * ProbUnit

\* C13 (amended): every such text gets the signal "Incongruity", with score
\* 0.8, and probability min(H * (A + 1.2) / (0.5 + C), 0.95), which is at
\* least 0.24 / 1.4 and at least 0.5 only when H * (A + 1.2) >= 0.5 * (0.5 + C);
\* the text of the example gets 0.6.
C13_MarkerSignalAndBound ==
    /\ (res.op = "satire" /\ ScoreI > 0) =>
          /\ HasSignal("Incongruity")
          /\ ScoreI = 80
          /\ IsCappedQuotient(res.out.probability, 95)
          /\ res.out.probability * 140 >= 24 * ProbUnit
          /\ res.out.probability * 100 >= 50 * ProbUnit
                <=> ScoreH * (ScoreA + 120) >= 50 * (50 + ScoreC)
    /\ (res.op = "satire" /\ text = SelfUnderminingExample) =>
          res.out.probability * 100 = 60 * ProbUnit

\* C13 happens: a text with a contradiction marker, in a geopolitical
\* context, got the signal and a probability below 0.5.
C13_Witness ==
    /\ res.op = "satire" /\ ScoreI > 0 /\ ScoreC >= 50
    /\ HasSignal("Incongruity")
    /\ res.out.probability * 100 < 50 * ProbUnit

\* The number of occurrences of the terms of a list in a text, every
\* occurrence of every term counting once.
RECURSIVE Occurrences(_, _, _)
Occurrences(s, terms, k) ==
    IF k > Len(terms) THEN 0
    ELSE Cardinality({i \in 1..Len(s) : IsWord(s[i]) /\ Contains(s[i], terms[k])})
         + Occurrences(s, terms, k + 1)

\* The number of entries of a term list that occur in a text at all
EntriesPresent(s, terms) ==
    Cardinality({k \in 1..Len(terms) :
                    \E i \in 1..Len(s) : IsWord(s[i]) /\ Contains(s[i], terms[k])})

LevelOf(n) == IF n = 0 THEN "Low" ELSE IF n \in {1, 2} THEN "Moderate" ELSE "High"

LevelsOf(r) == <<r.fear_level, r.authority_level, r.identity_level>>

LoadedTerms == <<_load_lexicon(lex.fear).out, _load_lexicon(lex.authority).out,
                 _load_lexicon(lex.identity).out>>

\* C14 (as stated): TriggerProfileAnalyzer.analyze classifies fear, authority
\* and identity by the number of substring occurrences of the category's
\* lexicon terms in the text, every occurrence of every term counting once:
\* 0 gives Low, 1 or 2 Moderate, 3 or more High; each level is one of the
\* three.
C14_LevelByOccurrences ==
    (res.op = "trigger" /\ res.raised = "none") =>
        \A c \in 1..3 :
            /\ LevelsOf(res.out)[c] \in {"Low", "Moderate", "High"}
            /\ LevelsOf(res.out)[c] = LevelOf(Occurrences(text, LoadedTerms[c], 1))

\* C14 (amended): the level of a category is given by the number of entries
\* of its term list that occur in the text at least once, an entry counting
\* once however often it occurs: 0 gives Low, 1 or 2 Moderate, 3 or more
\* High; each level is one of the three.
C14_LevelByEntriesPresent ==
    (res.op = "trigger" /\ res.raised = "none") =>
        \A c \in 1..3 :
            /\ LevelsOf(res.out)[c] \in {"Low", "Moderate", "High"}
            /\ LevelsOf(res.out)[c] = LevelOf(EntriesPresent(text, LoadedTerms[c]))

\* C14 happens: a text with three occurrences of the one term of the fear
\* lexicon was classified Moderate, or one with three terms of it High and
\* another category Moderate.
C14_Witness ==
    /\ res.op = "trigger" /\ res.raised = "none"
    /\ \/ /\ Occurrences(text, LoadedTerms[1], 1) >= 3
          /\ res.out.fear_level = "Moderate"
       \/ /\ res.out.fear_level = "High"
          /\ res.out.identity_level = "Moderate"
          /\ res.out.authority_level = "Low"

\* C15: loading a lexicon never fails: an absent file, a file whose JSON value
\* is not an array, a file of malformed JSON and an unreadable file each give
\* an empty term list, and the construction of the analyzer that asked for
\* the lexicon completes normally.
C15_LoadingNeverFails ==
    /\ \A name \in LexiconNames :
          lex[name].kind # "array" =>
              _load_lexicon(lex[name]) = [raised |-> "none", out |-> <<>>]
    /\ res.op = "construct" => res.raised = "none"

\* C16: every analyzer that was constructed scores every category it uses
\* with a non-empty term list: where the lexicon loads as empty, an in-code
\* default list takes its place.
C16_DefaultsForEveryCategory ==
    (res.op = "construct" /\ res.raised = "none") =>
        \A category \in DOMAIN res.out.terms : res.out.terms[category] # <<>>

RECURSIVE PatternMatches(_, _)
\* The matches of the sentence pattern from symbol p on, in order: the
\* stripped text of each with the offsets of its group.
PatternMatches(s, p) ==
    IF p > Len(s) \/ NextTerm(s, p) = 0 THEN <<>>
    ELSE IF NextTerm(s, p) < Len(s) /\ ~IsSpace(s[NextTerm(s, p) + 1])
         THEN PatternMatches(s, NextTerm(s, p) + 1)
    ELSE <<[sent |-> Strip(SubSeq(s, p, NextTerm(s, p))),
            start |-> Offset(s, p),
            end |-> Offset(s, NextTerm(s, p) + 1)]>>
         \o PatternMatches(s, SkipSpaces(s, NextTerm(s, p)))

\* The fragment f is the end of the returned sentence r, after a space.
MergedInto(f, r) ==
    /\ r.start < f.start /\ r.end = f.end
    /\ Len(r.sent) > Len(f.sent) + 1
    /\ SubSeq(r.sent, Len(r.sent) - Len(f.sent), Len(r.sent)) = <<" ">> \o f.sent

\* C17: every fragment of at most 2 characters that a split produces is
\* merged into the previous sentence (its text appended, the end offset
\* extended to the fragment's end), so its text is kept in the output, and
\* no returned sentence has 2 characters or fewer.
C17_ShortFragmentsMerged ==
    res.op = "split" =>
        /\ \A k \in 1..Len(PatternMatches(text, 1)) :
              (PatternMatches(text, 1)[k].sent # <<>>
                 /\ CharLen(PatternMatches(text, 1)[k].sent) <= 2)
              => \E i \in 1..Len(res.out) :
                    MergedInto(PatternMatches(text, 1)[k], res.out[i])
        /\ \A i \in 1..Len(res.out) : CharLen(res.out[i].sent) > 2

\* The call of NarrativeArcAnalyzer.analyze on a non-empty text returned
ArcReturned == res.op = "arc" /\ res.raised = "none" /\ ~IsBlank(text)

\* S: the number of sentences the text is segmented into
SentenceCount == Len(split_sentences(text))

\* The chunks are the ceil(S / k) chunks of k sentences each, the last one of
\* the rest, in order
IsPartition(chunks, S, k) ==
    /\ S >= 1
    /\ Len(chunks) >= 1
    /\ (Len(chunks) - 1) * k < S
    /\ S <= Len(chunks) * k
    /\ \A c \in 1..Len(chunks) :
          /\ chunks[c].chunk_idx = c - 1
          /\ chunks[c].sentence_start = (c - 1) * k
          /\ chunks[c].sentence_end = (IF c * k < S THEN c * k ELSE S)
          /\ chunks[c].sentence_start < chunks[c].sentence_end
          /\ c > 1 => chunks[c].sentence_start = chunks[c - 1].sentence_end
    /\ chunks[1].sentence_start = 0
    /\ chunks[Len(chunks)].sentence_end = S
    /\ (S = 4 /\ k = 2) => Len(chunks) = 2

\* C18: for a non-empty text of S >= 1 sentences and chunk_size k >= 1 the
\* report has exactly ceil(S / k) chunks, at least one; chunk i covers the
\* sentence indices [i*k, min((i+1)*k, S)), so the chunks are contiguous and
\* disjoint and cover every sentence; 4 sentences with k = 2 give 2 chunks.
C18_ChunksPartitionSentences ==
    ArcReturned => IsPartition(res.out.chunks, SentenceCount, res.chunk_size)

\* C18 happens: a document of 4 sentences was analyzed with chunk_size 2, or
\* one of 3 sentences, whose last chunk is short.
C18_Witness ==
    /\ ArcReturned /\ res.chunk_size = 2
    /\ \/ SentenceCount = 4 /\ Len(res.out.chunks) = 2
       \/ SentenceCount = 3 /\ Len(res.out.chunks) = 2
          /\ res.out.chunks[2].sentence_end - res.out.chunks[2].sentence_start = 1

RECURSIVE LCM(_, _, _)
\* The least multiple of a that b divides, from m on
LCM(a, b, m) == IF m % b = 0 THEN m ELSE LCM(a, b, m + a)

RECURSIVE CommonDen(_)
\* A common denominator of the scores of the chunks
CommonDen(chunks) ==
    IF chunks = <<>> THEN 1
    ELSE LCM(LCM(Head(chunks).emotional_intensity.den, Head(chunks).threat_score.den,
                 Head(chunks).emotional_intensity.den),
             CommonDen(Tail(chunks)),
             LCM(Head(chunks).emotional_intensity.den, Head(chunks).threat_score.den,
                 Head(chunks).emotional_intensity.den))

\* v = emotional_intensity + threat_score of a chunk, in units of 1/D
ValueOf(chunk, D) ==
    chunk.emotional_intensity.num * (D \div chunk.emotional_intensity.den)
    + chunk.threat_score.num * (D \div chunk.threat_score.den)

RECURSIVE ValueSum(_, _)
ValueSum(chunks, D) ==
    IF chunks = <<>> THEN 0 ELSE ValueOf(Head(chunks), D) + ValueSum(Tail(chunks), D)

\* v_i > mean(v) + 0.15 and v_i > 0.3, for the 0-based index i
Qualifies(chunks, i, D) ==
    /\ 20 * Len(chunks) * ValueOf(chunks[i + 1], D)
          > 20 * ValueSum(chunks, D) + 3 * Len(chunks) * D
    /\ 10 * ValueOf(chunks[i + 1], D) > 3 * D

\* C19: escalation_points is exactly the ascending list of the chunk indices i
\* whose value v_i = emotional_intensity_i + threat_score_i is above
\* mean(v) + 0.15 and above 0.3, the mean taken over all chunks.
C19_EscalationPoints ==
    ArcReturned =>
        /\ \A j \in 1..Len(res.out.escalation_points) :
              /\ res.out.escalation_points[j] \in 0..(Len(res.out.chunks) - 1)
              /\ Qualifies(res.out.chunks, res.out.escalation_points[j],
                           CommonDen(res.out.chunks))
              /\ j > 1 => res.out.escalation_points[j - 1] < res.out.escalation_points[j]
        /\ \A i \in 0..(Len(res.out.chunks) - 1) :
              Qualifies(res.out.chunks, i, CommonDen(res.out.chunks))
              => \E j \in 1..Len(res.out.escalation_points) :
                    res.out.escalation_points[j] = i

\* C19 happens: one chunk is listed and another, whose value is above 0.3
\* but not above the mean by 0.15, is not.
C19_Witness ==
    /\ ArcReturned
    /\ res.out.escalation_points # <<>>
    /\ \E i \in 0..(Len(res.out.chunks) - 1) :
          /\ 10 * ValueOf(res.out.chunks[i + 1], CommonDen(res.out.chunks))
                > 3 * CommonDen(res.out.chunks)
          /\ \A j \in 1..Len(res.out.escalation_points) :
                res.out.escalation_points[j] # i

\* The indices i of the adjacent pairs (i, i + 1) that the claim has emitted:
\* negation presence differs, overlap >= min_overlap, both full texts longer
\* than 20 characters.
Emitting ==
    {i \in 1..(Len(turns) - 1) :
        /\ _has_negation(turns[i].text) # _has_negation(turns[i + 1].text)
        /\ _semantic_overlap(turns[i].text, turns[i + 1].text).num * 100
              >= res.min_overlap * _semantic_overlap(turns[i].text, turns[i + 1].text).den
        /\ CharLen(turns[i].text) > 20
        /\ CharLen(turns[i + 1].text) > 20}

\* The j-th index of a set of indices, in ascending order
NthOf(S, j) == CHOOSE i \in S : Cardinality({x \in S : x < i}) = j - 1

\* p = min(0.5 + 0.5 * overlap, 0.9)
IsPairProbability(p, overlap) ==
    IF 10 * (overlap.den + overlap.num) <= 18 * overlap.den
    THEN p.num * 2 * overlap.den = p.den * (overlap.den + overlap.num)
    ELSE p.num * 10 = 9 * p.den

\* The pair is the one of the adjacent turns a and b
IsPairOf(pair, a, b) ==
    /\ pair.speaker_a = a.speaker
    /\ pair.speaker_b = b.speaker
    /\ pair.text_a = Preview(a.text)
    /\ pair.text_b = Preview(b.text)
    /\ IsPairProbability(pair.probability, _semantic_overlap(a.text, b.text))

IsPairAt(pair, i) == IsPairOf(pair, turns[i], turns[i + 1])

\* The pairs are those of the indices of S, in ascending order
ArePairsOf(pairs, S) ==
    /\ Len(pairs) = Cardinality(S)
    /\ \A j \in 1..Len(pairs) : IsPairAt(pairs[j], NthOf(S, j))

\* C20: ContradictionAnalyzer.analyze emits pairs only for adjacent turns, in
\* turn order, at most len(turns) - 1 of them (none for fewer than two
\* turns); the adjacent pair (A, B) is emitted if and only if negation
\* presence differs, overlap(A, B) >= min_overlap and both full texts are
\* longer than 20 characters; its probability is min(0.5 + 0.5 * overlap,
\* 0.9); the previews, cut to 200 characters plus "...", play no part in
\* these decisions.
C20_AdjacentContradictions ==
    res.op = "contradiction" =>
        /\ Len(res.out.pairs) <= (IF Len(turns) >= 1 THEN Len(turns) - 1 ELSE 0)
        /\ ArePairsOf(res.out.pairs, Emitting)

\* C20 happens: a pair was emitted for a turn of more than 200 characters
\* whose negation is after the first 200, next to a turn without negation,
\* and no pair for a neighbouring pair of turns.
C20_Witness ==
    /\ res.op = "contradiction" /\ res.min_overlap = DefaultMinOverlap
    /\ Len(turns) = 3 /\ Len(res.out.pairs) = 1
    /\ \E i \in Emitting :
          /\ CharLen(turns[i + 1].text) > 200
          /\ ~_has_negation(Preview(turns[i + 1].text))
          /\ ~_has_negation(turns[i].text)
          /\ res.out.pairs[1].probability = Frac(9, 10)

HeatmapReturned == res.op = "heatmap" /\ res.raised = "none" /\ res.time_bins >= 1

\* The index of the first turn of a speaker
FirstTurn(speaker) ==
    CHOOSE i \in 1..Len(turns) :
        turns[i].speaker = speaker /\ \A j \in 1..(i - 1) : turns[j].speaker # speaker

\* names lists every speaker of the turns once, in the order of the first turns
InFirstAppearanceOrder(names) ==
    /\ {names[r] : r \in 1..Len(names)} = {turns[i].speaker : i \in 1..Len(turns)}
    /\ \A r, q \in 1..Len(names) : r < q => FirstTurn(names[r]) < FirstTurn(names[q])

\* A cell that is not zero is the value of a turn of the speaker of its row
IsRowOf(row, speaker) ==
    \A b \in 1..Len(row) :
        row[b] # Frac(0, 1) =>
            \E i \in 1..Len(turns) :
                /\ turns[i].speaker = speaker
                /\ row[b] = CellIntensity(TurnMetricsOf(i - 1, turns[i]))

\* C21: for every turn sequence and every time_bins >= 1 the heatmap grid
\* has exactly one row per distinct speaker, the rows in the order of the
\* speakers' first appearance, and exactly time_bins columns in every row.
C21_GridShape ==
    HeatmapReturned =>
        /\ InFirstAppearanceOrder(res.out.speakers)
        /\ Len(res.out.heatmap_grid) = Len(res.out.speakers)
        /\ \A r \in 1..Len(res.out.heatmap_grid) :
              /\ Len(res.out.heatmap_grid[r]) = res.time_bins
              /\ IsRowOf(res.out.heatmap_grid[r], res.out.speakers[r])

\* Four turns in three bins, the second speaker of the alphabet first
C21_Witness ==
    /\ HeatmapReturned
    /\ Len(turns) = 4 /\ res.time_bins = 3
    /\ res.out.speakers = <<"B", "A">>
    /\ Len(res.out.heatmap_grid) = 2

\* The row of the grid that belongs to a speaker
RowOf(speaker) == CHOOSE r \in 1..Len(res.out.speakers) : res.out.speakers[r] = speaker

\* f >= g
FracAtLeast(f, g) == ~FracLess(f, g)

\* The turn at index t (from 0) lies in the index range of exactly one bin,
\* and the cell of its speaker in that bin is at least the value of the turn
IsGrouped(t, bin_size) ==
    /\ Cardinality({b \in 0..(res.time_bins - 1) :
                       b * bin_size <= t /\ t < b * bin_size + bin_size}) = 1
    /\ \E b \in 0..(res.time_bins - 1) :
          /\ b * bin_size <= t /\ t < b * bin_size + bin_size
          /\ FracAtLeast(res.out.heatmap_grid[RowOf(turns[t + 1].speaker)][b + 1],
                         CellIntensity(TurnMetricsOf(t, turns[t + 1])))

\* C28: every turn is grouped into exactly one time bin, so the cell of its
\* speaker in that bin is at least emotional_intensity + 0.5 * dominance of
\* the turn, and no turn is left out, for every turn count and every
\* time_bins >= 1.
C28_EveryTurnInOneBin ==
    HeatmapReturned =>
        \A t \in 0..(Len(turns) - 1) : IsGrouped(t, BinSize(Len(turns), res.time_bins))

DriftReturned == res.op = "drift" /\ res.raised = "none"

\* The vector of the pair (p1, p2) for one dimension, as the formulas give it
IsVectorOf(v, dim, v1, v2) ==
    /\ v.dimension = dim
    /\ v.from_value = v1 /\ v.to_value = v2
    /\ v.delta = FracSub(v2, v1)
    /\ v.pct_change = PctFormula(v1, FracSub(v2, v1))
    /\ v.delta.num < 0 <=> FracLess(v2, v1)
    /\ v.delta.num > 0 <=> FracLess(v1, v2)

AreVectorsOf(vectors, profiles) ==
    /\ Len(vectors) = IF profiles = <<>> THEN 0 ELSE 4 * (Len(profiles) - 1)
    /\ \A i \in 1..(Len(profiles) - 1) : \A d \in 1..4 :
          IsVectorOf(vectors[4 * (i - 1) + d], DriftDimensions[d],
                     profiles[i][DriftDimensions[d]], profiles[i + 1][DriftDimensions[d]])

\* C22: for each pair of consecutive profiled documents and each dimension,
\* in the order fear, authority, identity, liberty, one DriftVector is
\* emitted with from_value = v1, to_value = v2, delta = v2 - v1 and
\* pct_change = delta / (v1 + 0.001) * 100 for every v1 in [0, 1], v1 = 0
\* included; delta is negative exactly when the value decreased and
\* positive exactly when it increased.
C22_DriftVectors == DriftReturned => AreVectorsOf(res.out.drift_vectors, res.out.profiles)

\* u, m and t of the text in hundredths, and n, its catastrophe-word matches
UniversalPart == IF HasWord(text, {"never", "always", "all", "everyone", "everybody"}) THEN 20 ELSE 0

CatastropheCount ==
    Cardinality({i \in 1..Len(text) :
        \/ text[i] \in {"collapse", "destroy", "chaos", "catastrophe"}
        \/ /\ i + 2 <= Len(text)
           /\ text[i] = "certain" /\ text[i + 1] = " " /\ text[i + 2] = "death"})

IsMagnitude(c) == c \in {"thousands", "millions"}

MagnitudePart ==
    IF \E i \in 1..Len(text) :
          /\ IsMagnitude(text[i])
          /\ \/ /\ i + 2 <= Len(text)
                /\ IsSpace(text[i + 1]) /\ IsMagnitude(text[i + 2])
             \/ /\ i + 4 <= Len(text)
                /\ IsSpace(text[i + 1]) /\ text[i + 2] = "and"
                /\ IsSpace(text[i + 3]) /\ IsMagnitude(text[i + 4])
    THEN 15 ELSE 0

TotalizerPart == IF HasWord(text, {"perfect", "completely", "totally"}) THEN 15 ELSE 0

Between(x, lo, hi) == Min(Max(x, lo), hi)

\* The score of the signal "Hyperbole" is H, and the signal is there when
\* H > 0.3
HyperboleSignalIs(H) ==
    /\ H > 30 => HasSignal("Hyperbole")
    /\ \A i \in 1..Len(res.out.signals) :
          res.out.signals[i].name = "Hyperbole" => res.out.signals[i].score = H

\* C23 as stated: H = clamp(u + c(n) + m + t, 0.2, 0.7) with c(0) = 0,
\* c(1) = 0.2 and 0.1 more per extra catastrophe-word match up to 0.4.
C23_CatastropheFromZero ==
    (res.op = "satire" /\ ~IsBlank(text)) =>
        /\ ScoreH = Between(UniversalPart
                          + (IF CatastropheCount = 0 THEN 0
                             ELSE Min(20 + 10 * (CatastropheCount - 1), 40))
                          + MagnitudePart + TotalizerPart, 20, 70)
        /\ HyperboleSignalIs(ScoreH)

\* C23: H = clamp(u + c(n) + m + t, 0.2, 0.7) with c(n) = min(0.2 + 0.1 n,
\* 0.4), which is 0.2 for a text without catastrophe words; u = 0.2 for a
\* universal quantifier, m = 0.15 for a magnitude pair, t = 0.15 for a
\* totalizing adjective.
C23_HyperboleScore ==
    (res.op = "satire" /\ ~IsBlank(text)) =>
        /\ ScoreH = Between(UniversalPart + Min(20 + 10 * CatastropheCount, 40)
                          + MagnitudePart + TotalizerPart, 20, 70)
        /\ HyperboleSignalIs(ScoreH)

\* A universal quantifier and no catastrophe word: H = 0.4; and three
\* catastrophe-word matches, where the cap of c holds
C23_Witness ==
    /\ res.op = "satire"
    /\ \/ /\ UniversalPart = 20 /\ CatastropheCount = 0
          /\ MagnitudePart = 0 /\ TotalizerPart = 0
          /\ HasSignal("Hyperbole") /\ ScoreH = 40
       \/ /\ CatastropheCount = 3 /\ UniversalPart = 0 /\ MagnitudePart = 15
          /\ ScoreH = 55

\* The turn ends with '?' and starts with a wh-word, with "Do " or "Did "
AsksQuestion(s) ==
    /\ s # <<>> /\ s[Len(s)] = "?"
    /\ \/ /\ s[1] \in {"what", "when", "where", "why", "how", "who", "which"}
          /\ Len(s) >= 2 /\ IsSpace(s[2])
       \/ s[1] \in {"Do", "Did"} /\ Len(s) >= 2 /\ s[2] = " "

HedgingAt(s) ==
    {i \in 1..Len(s) :
        s[i] \in {"perhaps", "maybe", "might", "could", "possibly", "sometimes", "allegedly"}}

\* The turn after turn i has hedging-word density > 0.1 and overlap < 0.3
\* with turn i
IsEvaded(i) ==
    /\ 10 * Cardinality(HedgingAt(turns[i + 1].text)) > SplitCount(turns[i + 1].text)
    /\ 10 * _semantic_overlap(turns[i].text, turns[i + 1].text).num
          < 3 * _semantic_overlap(turns[i].text, turns[i + 1].text).den

QuestionsReturned == res.op = "contradiction" /\ res.raised = "none"

\* The report states the two counts: q questions, ev of them evaded
ReportsCounts(q, ev) ==
    /\ res.out.evasion_likelihood = Frac(ev, q + 1)
    /\ res.out.question_avoidance_detected <=> (ev >= 1 /\ q >= 1)

\* C24 as stated: question_count is the number of turns that are questions,
\* evasion_count the number of those whose following turn hedges and
\* overlaps little, evasion_likelihood = evasion_count / (question_count + 1)
\* and question_avoidance_detected holds iff both counts are >= 1.
C24_EveryQuestionCounted ==
    QuestionsReturned =>
        ReportsCounts(Cardinality({i \in 1..Len(turns) : AsksQuestion(turns[i].text)}),
                      Cardinality({i \in 1..(Len(turns) - 1) :
                                      AsksQuestion(turns[i].text) /\ IsEvaded(i)}))

\* C24: question_count is the number of question turns that have a
\* following turn (a question in the last turn is not counted),
\* evasion_count the number of those whose following turn hedges and
\* overlaps little, evasion_likelihood = evasion_count / (question_count + 1)
\* and question_avoidance_detected holds iff both counts are >= 1.
C24_AnsweredQuestionsCounted ==
    QuestionsReturned =>
        ReportsCounts(Cardinality({i \in 1..(Len(turns) - 1) : AsksQuestion(turns[i].text)}),
                      Cardinality({i \in 1..(Len(turns) - 1) :
                                      AsksQuestion(turns[i].text) /\ IsEvaded(i)}))

\* A question, an evasive answer and a question in the last turn: 1 / 2
C24_Witness ==
    /\ QuestionsReturned
    /\ Len(turns) = 3
    /\ AsksQuestion(turns[1].text) /\ IsEvaded(1) /\ AsksQuestion(turns[3].text)
    /\ turns[3].text[1] = "Do"
    /\ res.out.evasion_likelihood = Frac(1, 2)
    /\ res.out.question_avoidance_detected

IsCovered(i) ==
    \E k \in 1..Len(res.out) :
        /\ res.out[k].start <= Offset(text, i)
        /\ Offset(text, i + 1) <= res.out[k].end

\* C26: split_sentences_with_offsets loses no text: for every non-empty
\* text, every character that is not whitespace lies inside the span
\* [start, end) of some returned sentence, text after the last terminator,
\* text before a terminator that is followed by a word character and short
\* fragments without a previous sentence included.
C26_NoTextLost ==
    (res.op = "split" /\ text # <<>>) =>
        \A i \in 1..Len(text) : ~IsSpace(text[i]) => IsCovered(i)

\* text[start:end], for offsets at symbol boundaries
Slice(s, start, end) ==
    SubSeq(s, CHOOSE i \in 1..(Len(s) + 1) : Offset(s, i) = start,
              (CHOOSE j \in 1..(Len(s) + 1) : Offset(s, j) = end) - 1)

OnBoundary(s, offset) == \E i \in 1..(Len(s) + 1) : Offset(s, i) = offset

\* C27: the triples (sentence, start, end) satisfy 0 <= start < end <=
\* len(text), the spans are strictly increasing and do not overlap, and each
\* sentence is text[start:end] with the surrounding whitespace stripped,
\* also after short fragments have been merged.
C27_SpansAndSlices ==
    res.op = "split" =>
        /\ \A k \in 1..Len(res.out) :
              /\ 0 <= res.out[k].start
              /\ res.out[k].start < res.out[k].end
              /\ res.out[k].end <= CharLen(text)
              /\ OnBoundary(text, res.out[k].start) /\ OnBoundary(text, res.out[k].end)
              /\ res.out[k].sent = Strip(Slice(text, res.out[k].start, res.out[k].end))
        /\ \A k \in 1..(Len(res.out) - 1) :
              /\ res.out[k].start < res.out[k + 1].start
              /\ res.out[k].end <= res.out[k + 1].start

LowSatireLabel == "Persuasive Rhetoric (low satire probability)"

\* A takes the values 0, 0.8, 0.85, 0.9 and I the values 0 and 0.8 only, so
\* the cap of the gate never changes the probability: it is the quotient
\* capped at 0.95
GateNeverBinds ==
    (res.op = "satire" /\ ~IsBlank(text)) =>
        /\ ScoreA \in {0, 80, 85, 90}
        /\ ScoreI \in {0, 80}
        /\ res.out.probability
              = Min(ScoreH * (2 * ScoreA + 3 * ScoreI) * (ProbUnit \div (200 * (50 + ScoreC))),
                    95 * (ProbUnit \div 100))

\* C29 as stated: whenever a non-empty text matches neither an absurdity
\* pattern nor a contradiction marker, the probability is exactly 0.0 and
\* the label is the low-satire one, whatever H and C are.
C29_NonEmptyGetsLowLabel ==
    /\ (res.op = "satire" /\ text # <<>> /\ ScoreA = 0 /\ ScoreI = 0) =>
          /\ res.out.probability = 0
          /\ res.out.content_type = LowSatireLabel
    /\ GateNeverBinds

\* C29: whenever a text with a character that is not whitespace matches
\* neither an absurdity pattern nor a contradiction marker, the probability
\* is exactly 0.0 and the label is the low-satire one, whatever H and C
\* are (a whitespace-only text gets 0.0 and "Uncertain"); the cap of the
\* gate never changes the probability.
C29_NoMarkerGetsZero ==
    /\ (res.op = "satire" /\ ~IsBlank(text) /\ ScoreA = 0 /\ ScoreI = 0) =>
          /\ res.out.probability = 0
          /\ res.out.content_type = LowSatireLabel
    /\ (res.op = "satire" /\ text # <<>> /\ IsBlank(text)) =>
          /\ res.out.probability = 0
          /\ res.out.content_type = "Uncertain"
    /\ GateNeverBinds

\* A text without absurdity and marker, with H = 0.5 and C = 0.7
C29_Witness ==
    /\ res.op = "satire"
    /\ ScoreA = 0 /\ ScoreI = 0 /\ ScoreH = 50 /\ ScoreC = 70
    /\ res.out.probability = 0
    /\ res.out.content_type = LowSatireLabel

\* The escalation points as a set, and the indices of the chunks
PointSet == {res.out.escalation_points[j] : j \in 1..Len(res.out.escalation_points)}

ChunkIndices == 0..(Len(res.out.chunks) - 1)

\* The chunk at index i (from 0) has the least value of all chunks
IsMinimal(chunks, i, D) ==
    \A j \in 1..Len(chunks) : ValueOf(chunks[i + 1], D) <= ValueOf(chunks[j], D)

NoMinimalPoint ==
    \A i \in ChunkIndices :
        IsMinimal(res.out.chunks, i, CommonDen(res.out.chunks)) => i \notin PointSet

\* C30 as stated: for every document escalation_points is a proper subset
\* of the chunk indices, a chunk of minimal value never being an escalation
\* point.
C30_ProperSubsetAlways ==
    (res.op = "arc" /\ res.raised = "none") =>
        /\ PointSet \subseteq ChunkIndices /\ PointSet # ChunkIndices
        /\ NoMinimalPoint

\* C30: for every document with at least one chunk escalation_points is a
\* proper subset of the chunk indices: a chunk whose value is minimal among
\* the chunks is never an escalation point, so a single-chunk document and
\* a document whose chunks all have the same value have none.  A blank
\* document has no chunks and no escalation points.
C30_MinimalChunkNeverEscalates ==
    (res.op = "arc" /\ res.raised = "none") =>
        /\ PointSet \subseteq ChunkIndices
        /\ NoMinimalPoint
        /\ res.out.chunks # <<>> => PointSet # ChunkIndices
        /\ res.out.chunks = <<>> <=> IsBlank(text)
        /\ res.out.chunks = <<>> => res.out.escalation_points = <<>>

\* Two chunks of the same value, which is above 0.3, and no escalation point
C30_Witness ==
    /\ res.op = "arc" /\ res.raised = "none"
    /\ Len(res.out.chunks) = 2
    /\ ValueOf(res.out.chunks[1], CommonDen(res.out.chunks))
          = ValueOf(res.out.chunks[2], CommonDen(res.out.chunks))
    /\ 10 * ValueOf(res.out.chunks[1], CommonDen(res.out.chunks))
          > 3 * CommonDen(res.out.chunks)
    /\ res.out.escalation_points = <<>>

=============================================================================
